---------------------------- MODULE Spec2Model ----------------------------
(***************************************************************************)
(* Model of the cnc-vlo OAI-PMH endpoint: request validation               *)
(* (VLOHandler.getReqResp), verb dispatch (VLOHandler.handleRequest), the  *)
(* CNC hook (CNCHook) and the record repository queries                    *)
(* (CNCMySQLHandler).                                                      *)
(*                                                                         *)
(* The repository content is fixed when a behaviour starts (the endpoint   *)
(* is read-only), one request is handled per behaviour (requests share no  *)
(* mutable state).  The configured base URL is taken to be a well-formed   *)
(* URL and XML serialisation of a response is taken to succeed.            *)
(***************************************************************************)
EXTENDS Integers, Sequences, FiniteSets, TLC

(***************************************************************************)
(* Bounds of the model.                                                    *)
(***************************************************************************)
\* record ids are 1..MaxId
MaxId == 2
\* calendar days are 0..MaxDay (day 0 is 1970-01-01)
MaxDay == 1
\* largest number of keys of a request's parameter map
MaxArgs == 3
\* the longest author block, in characters
MaxLen == 5

\* the longest locale string before its encoding suffix, in tokens
MaxParts == 3

(***************************************************************************)
(* Program constants.                                                      *)
(***************************************************************************)
ArgVerb == "verb"
ArgIdentifier == "identifier"
ArgMetadataPrefix == "metadataPrefix"
ArgFrom == "from"
ArgUntil == "until"
ArgSet == "set"
ArgResumptionToken == "resumptionToken"

VerbIdentify == "Identify"
VerbGetRecord == "GetRecord"
VerbListIdentifiers == "ListIdentifiers"
VerbListMetadataFormats == "ListMetadataFormats"
VerbListRecords == "ListRecords"
VerbListSets == "ListSets"

ErrorCodeBadArgument == "badArgument"
ErrorCodeBadResumptionToken == "badResumptionToken"
ErrorCodeBadVerb == "badVerb"
ErrorCodeCannotDisseminateFormat == "cannotDisseminateFormat"
ErrorCodeIDDoesNotExist == "idDoesNotExist"
ErrorCodeNoRecordsMatch == "noRecordsMatch"
ErrorCodeNoMetadataFormats == "noMetadataFormats"
ErrorCodeNoSetHierarchy == "noSetHierarchy"

DublinCoreMetadataPrefix == "oai_dc"
CMDIMetadataPrefix == "cmdi"

StatusOK == 200
StatusBadRequest == 400
StatusNotFound == 404
StatusInternalServerError == 500
StatusNotImplemented == 501

\* hours of the duration added to a bare `until` date (24 * time.Hour)
DayHours == 24

RTResource == "Resource"
RTSearchPage == "SearchPage"

CorpusMetadataType == "corpus"
ServiceMetadataType == "service"

(***************************************************************************)
(* Verb and the per-verb argument grammar.                                 *)
(***************************************************************************)
Verbs ==
    {VerbIdentify, VerbGetRecord, VerbListIdentifiers,
     VerbListMetadataFormats, VerbListRecords, VerbListSets}

\* Validate comparing without regard to case
ValidateIgnoreCase(v) ==
    \/ v = VerbGetRecord \/ v = VerbIdentify
    \/ v = VerbListIdentifiers \/ v = VerbListMetadataFormats
    \/ v = VerbListRecords \/ v = VerbListSets
    \/ v = "getrecord"

\* Verb.Validate: TRUE when the verb is one of the six (err == nil)
Validate(v) ==
    \/ v = VerbGetRecord \/ v = VerbIdentify
    \/ v = VerbListIdentifiers \/ v = VerbListMetadataFormats
    \/ v = VerbListRecords \/ v = VerbListSets

\* ValidateArg accepting every argument name of the protocol for every verb
ValidateArgAnyKnown(v, arg) ==
    arg \in {ArgVerb, ArgIdentifier, ArgMetadataPrefix, ArgFrom, ArgUntil,
             ArgSet, ArgResumptionToken}

\* Verb.ValidateArg
ValidateArg(v, arg) ==
    CASE v = VerbGetRecord ->
            arg = ArgVerb \/ arg = ArgIdentifier \/ arg = ArgMetadataPrefix
      [] v = VerbListIdentifiers ->
            \/ arg = ArgVerb \/ arg = ArgMetadataPrefix \/ arg = ArgFrom
            \/ arg = ArgUntil \/ arg = ArgSet \/ arg = ArgResumptionToken
      [] v = VerbListMetadataFormats ->
            arg = ArgVerb \/ arg = ArgIdentifier
      [] v = VerbListRecords ->
            \/ arg = ArgVerb \/ arg = ArgMetadataPrefix \/ arg = ArgFrom
            \/ arg = ArgUntil \/ arg = ArgSet \/ arg = ArgResumptionToken
      [] v = VerbListSets ->
            arg = ArgVerb \/ arg = ArgResumptionToken
      [] OTHER ->
            arg = ArgVerb

\* ReqArgs with the identifier of GetRecord left out
ReqArgsNoIdentifier(v) ==
    CASE v = VerbGetRecord -> <<ArgVerb, ArgMetadataPrefix>>
      [] v = VerbListIdentifiers -> <<ArgVerb, ArgMetadataPrefix>>
      [] v = VerbListRecords -> <<ArgVerb, ArgMetadataPrefix>>
      [] OTHER -> <<ArgVerb>>

\* the reqArgs slice built by Verb.ValidateRequiredArgs
ReqArgs(v) ==
    CASE v = VerbGetRecord -> <<ArgVerb, ArgIdentifier, ArgMetadataPrefix>>
      [] v = VerbListIdentifiers -> <<ArgVerb, ArgMetadataPrefix>>
      [] v = VerbListRecords -> <<ArgVerb, ArgMetadataPrefix>>
      [] OTHER -> <<ArgVerb>>

\* url.Values.Has
Has(args, key) == key \in DOMAIN args

\* url.Values.Get / getTypedArg: the first value of the key, "" when absent
getTypedArg(args, name) == IF name \in DOMAIN args THEN args[name] ELSE ""

\* Verb.ValidateRequiredArgs: the first required argument that is missing,
\* "" when none is
ValidateRequiredArgs(v, args) ==
    LET reqArgs == ReqArgs(v)
        missing == {i \in 1..Len(reqArgs) : ~Has(args, reqArgs[i])}
    IN  IF missing = {} THEN ""
        ELSE reqArgs[CHOOSE i \in missing : \A j \in missing : i <= j]

(***************************************************************************)
(* Time.  A time.Time is an instant (hours since 1970-01-01T00:00Z) and a  *)
(* location.  Request date strings are the strings below; parsing is the   *)
(* inverse of formatting on them and fails on every other string.          *)
(***************************************************************************)
Days == 0..MaxDay

\* time.Time.In
In(t, loc) == [inst |-> t.inst, zone |-> loc]

\* time.Time.Add
Add(t, hours) == [inst |-> t.inst + hours, zone |-> t.zone]

\* the zero time.Time
ZeroTime == [inst |-> 0 - 1000, zone |-> "UTC"]

\* "1970-01-01", "1970-01-02", ... (time.DateOnly layout)
DateStr(d) == "1970-01-0" \o ToString(d + 1)

\* UTC offsets of the modelled timestamps: designator and hours
ZoneOffsets == [Z |-> 0, P1 |-> 1]

ZoneText(z) == IF z = "Z" THEN "Z" ELSE "+01:00"

\* midnight of day d at the given offset (time.RFC3339 layout)
TsStr(d, z) == DateStr(d) \o "T00:00:00" \o ZoneText(z)

\* malformed date strings: one without and one with the letter T
BadDate == "yesterday"
BadDateT == "Tomorrow"

\* strings.Contains(s, "T") on the modelled strings
ContainsT(s) ==
    \/ s = BadDateT
    \/ \E d \in Days, z \in DOMAIN ZoneOffsets : s = TsStr(d, z)

\* time.Parse(time.RFC3339, s)
ParseRFC3339(s) ==
    IF \E d \in Days, z \in DOMAIN ZoneOffsets : s = TsStr(d, z)
    THEN LET p == CHOOSE p \in Days \X DOMAIN ZoneOffsets : s = TsStr(p[1], p[2])
         IN  [err |-> FALSE,
              time |-> [inst |-> DayHours * p[1] - ZoneOffsets[p[2]],
                        zone |-> IF p[2] = "Z" THEN "UTC" ELSE ZoneText(p[2])]]
    ELSE [err |-> TRUE, time |-> ZeroTime]

\* time.Parse(time.DateOnly, s)
ParseDateOnly(s) ==
    IF \E d \in Days : s = DateStr(d)
    THEN LET d == CHOOSE d \in Days : s = DateStr(d)
         IN  [err |-> FALSE, time |-> [inst |-> DayHours * d, zone |-> "UTC"]]
    ELSE [err |-> TRUE, time |-> ZeroTime]

\* InUTC leaving the parsed time in the zone of its text
InUTCKeepZone(parsed) == parsed

\* parsed = parsed.In(time.UTC) on a parse result
InUTC(parsed) == [err |-> parsed.err, time |-> In(parsed.time, "UTC")]

\* parsed = parsed.Add(24 * time.Hour) on a parse result
AddDay(parsed) == [err |-> parsed.err, time |-> Add(parsed.time, DayHours)]

\* the `from` block of getReqResp: parse, then normalise to UTC
ParseFrom(from) ==
    InUTC(IF ContainsT(from) THEN ParseRFC3339(from) ELSE ParseDateOnly(from))

\* the `until` block of getReqResp: a bare date is moved to the next day
ParseUntil(until) ==
    InUTC(IF ContainsT(until) THEN ParseRFC3339(until)
          ELSE AddDay(ParseDateOnly(until)))

(***************************************************************************)
(* Locale strings.  A locale string is the sequence of its tokens, the     *)
(* separators ".", "_" and "-" being tokens of their own:                  *)
(* "en_US.UTF-8" is <<"en", "_", "US", ".", "UTF", "-", "8">>.             *)
(***************************************************************************)
KnownLanguages == {"en", "cs"}
KnownRegions == {"US", "CZ"}

RECURSIVE SplitFrom(_, _, _, _)
\* strings.Split, from position i with the part collected so far
SplitFrom(s, sep, i, part) ==
    IF i > Len(s) THEN <<part>>
    ELSE IF s[i] = sep THEN <<part>> \o SplitFrom(s, sep, i + 1, <<>>)
    ELSE SplitFrom(s, sep, i + 1, Append(part, s[i]))

\* strings.Split(s, sep)
Split(s, sep) == SplitFrom(s, sep, 1, <<>>)

\* language.Parse on the modelled tags: a known language, optionally
\* followed by "_" or "-" and a known region
LanguageParse(s) ==
    IF Len(s) = 1 /\ s[1] \in KnownLanguages
    THEN [err |-> FALSE, tag |-> [base |-> s[1], region |-> ""]]
    ELSE IF /\ Len(s) = 3 /\ s[1] \in KnownLanguages
            /\ s[2] \in {"_", "-"} /\ s[3] \in KnownRegions
    THEN [err |-> FALSE, tag |-> [base |-> s[1], region |-> s[3]]]
    ELSE [err |-> TRUE, tag |-> [base |-> "und", region |-> ""]]

\* the partial parsing without the test of the number of parts
PartialParseAnyParts(tmp, ans) == LanguageParse(tmp[1])

\* parseLocale, the partial parsing of the parts tmp
PartialParse(tmp, ans) ==
    IF Len(tmp) # 2
    THEN [err |-> TRUE, tag |-> ans.tag]
    ELSE LanguageParse(tmp[1])

\* parseLocale, the parts of the partial parsing: those between "_", or
\* between "-" when there are none
PartialParts(loc, tmp) == IF Len(tmp) = 0 THEN Split(loc, "-") ELSE tmp

\* parseLocale once language.Parse(base) has returned ans
ParsedLocale(loc, ans) ==
    IF ans.err
    THEN PartialParse(PartialParts(loc, Split(loc, "_")), ans)
    ELSE ans

\* CNCMySQLHandler.parseLocale
parseLocale(loc) == ParsedLocale(loc, LanguageParse(Split(loc, ".")[1]))

(***************************************************************************)
(* The record repository.  A row is a vlo_metadata_common row joined with  *)
(* what the queries read of the other tables:                              *)
(*   public   - the row's corpus is in the public corpus list              *)
(*              (corplist_corpus.corplist_id = publicCorplistID)           *)
(*   parallel - the corpus is in the public list through its parallel      *)
(*              corpus (corplist_parallel_corpus.corplist_id)              *)
(*   locale   - the corpus' locale column (valid = not NULL)               *)
(* The corpus of a row is the same through m.corpus_name and through       *)
(* vlo_metadata_corpus.corpus_name.  contact_user_id is a NOT NULL foreign *)
(* key, so the inner join with the user table keeps every row.             *)
(***************************************************************************)
Ids == 1..MaxId

NullString == [valid |-> FALSE, str |-> <<>>]
\* the zero sql.NullInt64
NullInt64 == [valid |-> FALSE, int |-> 0]
String(s) == [valid |-> TRUE, str |-> s]

\* a timestamp column read with conf.Loc = time.Local
DBTime(h) == [inst |-> h, zone |-> "Local"]

\* GREATEST(m.created, m.updated)
Greatest(row) == IF row.created >= row.updated THEN row.created ELSE row.updated

\* ExistsVisible without the test of the deleted flag
ExistsVisibleWithDeleted(row) ==
    \/ (row.type = CorpusMetadataType /\ row.public)
    \/ row.type # CorpusMetadataType

\* the WHERE clause of IdentifierExists, but for m.id = ?
ExistsVisible(row) ==
    /\ row.deleted = FALSE
    /\ \/ (row.type = CorpusMetadataType /\ row.public)
       \/ row.type # CorpusMetadataType

\* RecordVisible without the test of the deleted flag
RecordVisibleWithDeleted(row) ==
    \/ (row.type = CorpusMetadataType /\ row.public)
    \/ row.parallel
    \/ row.type # CorpusMetadataType

\* the WHERE clause of GetRecordInfo (but for m.id = ?) and ListRecordInfo
\* (but for the date range)
RecordVisible(row) ==
    /\ row.deleted = FALSE
    /\ \/ (row.type = CorpusMetadataType /\ row.public)
       \/ row.parallel
       \/ row.type # CorpusMetadataType

\* MySQL's m.id = ? for the identifier string of the request; identifiers
\* are taken in the decimal form fmt.Sprint gives an id
IdMatches(id, identifier) == ToString(id) = identifier

\* the DBData scanned from a row
DBData(id, row, locale) ==
    [ID |-> id, Date |-> DBTime(Greatest(row)), Type |-> row.type,
     Locale |-> locale, Name |-> <<"name">>,
     TitleEN |-> <<"title">>, TitleCS |-> <<"titul">>,
     DescEN |-> NullString, DescCS |-> NullString, DateIssued |-> <<>>,
     License |-> <<>>, Authors |-> <<>>, ContactPerson |-> <<"contact">>,
     Link |-> NullString, Size |-> NullInt64, Keywords |-> NullString]

\* CNCMySQLHandler.GetFirstDate: MIN(created); NULL (no rows) does not scan
GetFirstDate(table, ioErr) ==
    IF ioErr \/ DOMAIN table = {}
    THEN [err |-> TRUE, date |-> ZeroTime]
    ELSE LET first == CHOOSE i \in DOMAIN table :
                         \A j \in DOMAIN table : table[i].created <= table[j].created
         IN  [err |-> FALSE, date |-> DBTime(table[first].created)]

\* CNCMySQLHandler.IdentifierExists
IdentifierExists(table, identifier, ioErr) ==
    LET rows == {i \in DOMAIN table :
                    IdMatches(i, identifier) /\ ExistsVisible(table[i])}
    IN  IF ioErr THEN [err |-> TRUE, exists |-> FALSE]
        ELSE [err |-> FALSE, exists |-> rows # {}]

\* the result of a scanned row whose locale was parsed
LocalisedRow(i, row, parsed) ==
    IF parsed.err THEN [err |-> TRUE, data |-> <<>>]
    ELSE [err |-> FALSE, data |-> <<DBData(i, row, <<parsed.tag>>)>>]

\* GetRecordInfo after row.Scan of row i
ScannedRecord(i, row) ==
    IF row.locale.valid
    THEN LocalisedRow(i, row, parseLocale(row.locale.str))
    ELSE [err |-> FALSE, data |-> <<DBData(i, row, <<>>)>>]

\* GetRecordInfo on the rows its query returns
QueriedRecord(table, rows) ==
    IF rows = {} THEN [err |-> FALSE, data |-> <<>>]
    ELSE ScannedRecord(CHOOSE i \in rows : TRUE, table[CHOOSE i \in rows : TRUE])

\* CNCMySQLHandler.GetRecordInfo: data is <<>> for nil
GetRecordInfo(table, identifier, ioErr) ==
    IF ioErr THEN [err |-> TRUE, data |-> <<>>]
    ELSE QueriedRecord(table,
             {i \in DOMAIN table :
                 IdMatches(i, identifier) /\ RecordVisible(table[i])})

\* the rows ListRecordInfo's WHERE clause keeps; from and until are <<>>
\* for nil, <<t>> otherwise
ListMatches(table, from, until) ==
    {i \in DOMAIN table :
        /\ RecordVisible(table[i])
        /\ (from # <<>> => Greatest(table[i]) >= from[1].inst)
        /\ (until # <<>> => Greatest(table[i]) <= until[1].inst)}

\* GROUP BY c.name: a corpus row is a group of its own, the rows without
\* a corpus (c.name IS NULL) are one group
SameGroup(table, i, j) ==
    \/ i = j
    \/ /\ table[i].type # CorpusMetadataType
       /\ table[j].type # CorpusMetadataType

\* sequences over S without repetition
Arrangements(S) ==
    UNION {{f \in [1..n -> S] : \A a, b \in 1..n : a # b => f[a] # f[b]} :
              n \in 0..Cardinality(S)}

\* the choices of one row of every group of the matching rows m, in any order
GroupChoices(table, m) ==
    {f \in Arrangements(m) :
        /\ \A i \in m : \E a \in 1..Len(f) : SameGroup(table, i, f[a])
        /\ \A a, b \in 1..Len(f) : a # b => ~SameGroup(table, f[a], f[b])}

\* the result sets the query can produce: one row of every group (the
\* server picks the row of a group), in the order the server returns them
ListRowOrders(table, from, until) ==
    GroupChoices(table, ListMatches(table, from, until))

RECURSIVE ScanRows(_, _, _)
RECURSIVE ScanLocalised(_, _, _, _)
\* the rows.Next() loop of ListRecordInfo over the returned rows
ScanRows(table, rows, results) ==
    IF rows = <<>> THEN [err |-> FALSE, data |-> results]
    ELSE IF table[Head(rows)].locale.str # <<>>
    THEN ScanLocalised(table, rows, results,
                       parseLocale(table[Head(rows)].locale.str))
    ELSE ScanRows(table, Tail(rows),
             Append(results, DBData(Head(rows), table[Head(rows)], <<>>)))

\* the loop body of ListRecordInfo for a row whose locale was parsed
ScanLocalised(table, rows, results, parsed) ==
    IF parsed.err THEN [err |-> TRUE, data |-> <<>>]
    ELSE ScanRows(table, Tail(rows),
             Append(results,
                    DBData(Head(rows), table[Head(rows)], <<parsed.tag>>)))

\* CNCMySQLHandler.ListRecordInfo, given the rows the query returned
ListRecordInfo(table, rows, ioErr) ==
    IF ioErr THEN [err |-> TRUE, data |-> <<>>]
    ELSE ScanRows(table, rows, <<>>)

(***************************************************************************)
(* Protocol data: errors, result wrapper, request, response envelope.      *)
(* A pointer or an optional value is <<>> when nil and <<v>> when set.     *)
(***************************************************************************)
\* OAIPMHErrors.Add
ErrorsAdd(errors, code, message) ==
    Append(errors, [Code |-> code, Message |-> message])

\* OAIPMHErrors.HasErrors
HasErrors(errors) == Len(errors) > 0

NewResultWrapper(data) ==
    [Data |-> data, Errors |-> <<>>, HTTPCode |-> StatusOK]

\* NoError with the error list left out of the test
NoErrorStatusOnly(w) == w.HTTPCode < 400

\* ResultWrapper.NoError
NoError(w) == ~HasErrors(w.Errors) /\ w.HTTPCode < 400

\* the zero OAIPMHRequest (the URL is the configured one)
EmptyRequest ==
    [Verb |-> "", Identifier |-> "", MetadataPrefix |-> "", From |-> <<>>,
     Until |-> <<>>, Set |-> "", ResumptionToken |-> ""]

NewOAIPMHResponse(request) ==
    [Request |-> request, Errors |-> <<>>,
     Identify |-> <<>>, GetRecord |-> <<>>, ListMetadataFormats |-> <<>>,
     ListIdentifiers |-> <<>>, ListRecords |-> <<>>, ListSets |-> <<>>,
     ProtocolVersion |-> "2.0"]

(***************************************************************************)
(* Conversion of a repository record to a protocol record.  A text is the  *)
(* sequence of its characters.                                             *)
(***************************************************************************)
RECURSIVE ReplaceAllCRLF(_)
\* strings.ReplaceAll(s, "\r\n", "\n")
ReplaceAllCRLF(s) ==
    IF s = <<>> THEN <<>>
    ELSE IF Len(s) >= 2 /\ s[1] = "\r" /\ s[2] = "\n"
    THEN <<"\n">> \o ReplaceAllCRLF(SubSeq(s, 3, Len(s)))
    ELSE <<s[1]>> \o ReplaceAllCRLF(Tail(s))

RECURSIVE Trim(_, _)
\* strings.Trim(s, cutset) for a cutset of one character
Trim(s, c) ==
    IF s = <<>> THEN <<>>
    ELSE IF s[1] = c THEN Trim(Tail(s), c)
    ELSE IF s[Len(s)] = c THEN Trim(SubSeq(s, 1, Len(s) - 1), c)
    ELSE s

\* the body of the loop of getAuthorList for the tokens of a line
AuthorOf(sAuthor) ==
    IF Len(sAuthor) = 1
    THEN <<[FirstName |-> <<>>, LastName |-> sAuthor[1]]>>
    ELSE IF Len(sAuthor) > 1
    THEN <<[FirstName |-> sAuthor[1], LastName |-> sAuthor[2]]>>
    ELSE <<>>

RECURSIVE AuthorsOfLines(_)
\* the loop of getAuthorList over the lines
AuthorsOfLines(lines) ==
    IF lines = <<>> THEN <<>>
    ELSE AuthorOf(Split(Trim(Head(lines), " "), " "))
            \o AuthorsOfLines(Tail(lines))

\* getAuthorList on the text of data.Authors
getAuthorList(authors) ==
    AuthorsOfLines(Split(ReplaceAllCRLF(authors), "\n"))

\* the header with the date in the zone of the database
RecordHeaderLocal(data) ==
    [Identifier |-> ToString(data.ID), Datestamp |-> data.Date]

\* the header both converters build: fmt.Sprint(data.ID) and the UTC date
RecordHeader(data) ==
    [Identifier |-> ToString(data.ID), Datestamp |-> In(data.Date, "UTC")]

\* MultilangElement{Value: value, Lang: lang}, what Add appends
Element(value, lang) == [Value |-> value, Lang |-> lang]

RECURSIVE Creators(_)
\* the creator loop of dcRecordFromData over the authors
Creators(authors) ==
    IF authors = <<>> THEN <<>>
    ELSE <<IF Head(authors).FirstName = <<>>
           THEN Element(Head(authors).LastName, "")
           ELSE Element(Head(authors).FirstName \o <<" ">> \o Head(authors).LastName,
                        "")>>
            \o Creators(Tail(authors))

\* the corpus-only fields without the test of the type
IsCorpusAlways(data) == TRUE

\* switch MetadataType(data.Type), case CorpusMetadataType
IsCorpus(data) == data.Type = CorpusMetadataType

\* display.English.Languages().Name(base) for the known languages
LanguageName(base) == IF base = "cs" THEN "Czech" ELSE "English"

\* the search page proxy of a corpus, in a list
SearchPageProxy(data) ==
    IF IsCorpus(data)
    THEN <<[ID |-> <<"sp_", ToString(data.ID)>>,
            ResourceType |-> [MimeType |-> "text/html", Value |-> RTSearchPage],
            ResourceRef |-> <<"https://www.korpus.cz/kontext/query?corpname=">>
                               \o data.Name]>>
    ELSE <<>>

RECURSIVE ReplaceAll(_, _, _)
\* strings.ReplaceAll on a text given as its parts, old being one part
ReplaceAll(s, old, new) ==
    IF s = <<>> THEN <<>>
    ELSE <<IF Head(s) = old THEN new ELSE Head(s)>>
            \o ReplaceAll(Tail(s), old, new)

\* the proxy of the record's link with the link as stored
LinkProxyAsStored(data) ==
    IF data.Link.str # <<>>
    THEN <<[ID |-> <<"uri_", ToString(data.ID)>>,
            ResourceType |-> [MimeType |-> "text/html", Value |-> RTResource],
            ResourceRef |-> data.Link.str]>>
    ELSE <<>>

\* "insert link if available": the proxy of the record's link, in a list;
\* a link to the wiki is given in its English version
LinkProxy(data) ==
    IF data.Link.str # <<>>
    THEN <<[ID |-> <<"uri_", ToString(data.ID)>>,
            ResourceType |-> [MimeType |-> "text/html", Value |-> RTResource],
            ResourceRef |->
               IF \E i \in 1..Len(data.Link.str) : data.Link.str[i] = "wiki.korpus.cz"
               THEN ReplaceAll(data.Link.str, "/cnk:", "/en:cnk:")
               ELSE data.Link.str]>>
    ELSE <<>>

\* CNCHook.dcRecordFromData
dcRecordFromData(data) ==
    [Header |-> <<RecordHeader(data)>>,
     Metadata |->
        <<[XMLName |-> "oai_dc:dc",
           Title |-> <<Element(data.TitleEN, "en"), Element(data.TitleCS, "cs")>>,
           Description |->
              (IF data.DescCS.valid
               THEN <<Element(data.DescCS.str, "cs")>> ELSE <<>>)
              \o (IF data.DescEN.valid
                  THEN <<Element(data.DescEN.str, "en")>> ELSE <<>>),
           Date |-> <<Element(In(data.Date, "UTC"), "")>>,
           Creator |-> Creators(getAuthorList(data.Authors)),
           Identifier |-> <<Element(data.Name, "")>>,
           Type |-> <<Element(data.Type, "")>>,
           Rights |-> <<Element(data.License, "")>>,
           Language |->
              IF IsCorpus(data) /\ data.Locale # <<>>
              THEN <<Element(data.Locale[1].base, "")>> ELSE <<>>]>>]

\* CNCHook.cmdiLindatClarinRecordFromData
cmdiLindatClarinRecordFromData(data) ==
    [Header |-> <<RecordHeader(data)>>,
     Metadata |->
        <<[XMLName |-> "cmd:CMD",
           MdSelfLink |-> <<"/record/", ToString(data.ID), "?format=cmdi">>,
           ResourceProxyList |-> SearchPageProxy(data) \o LinkProxy(data),
           Components |->
              [BibliographicInfo |->
                  [Titles |-> <<Element(data.TitleEN, "en"),
                                Element(data.TitleCS, "cs")>>,
                   Identifiers |-> <<data.Name>>,
                   Authors |-> getAuthorList(data.Authors),
                   ContactPerson |-> data.ContactPerson,
                   Dates |-> IF data.DateIssued = <<>>
                             THEN <<[DateIssued |-> data.DateIssued]>>
                             ELSE <<>>],
               DataInfo |->
                  [Type |-> data.Type,
                   Description |-> <<Element(data.DescEN.str, "en"),
                                     Element(data.DescCS.str, "cs")>>,
                   SizeInfo |->
                      IF IsCorpus(data)
                      THEN <<<<[Size |-> ToString(data.Size.int),
                                Unit |-> "words"]>>>>
                      ELSE <<>>,
                   Languages |->
                      IF IsCorpus(data) /\ data.Locale # <<>>
                      THEN <<<<[Name |-> LanguageName(data.Locale[1].base),
                                Code |-> data.Locale[1].base]>>>>
                      ELSE <<>>,
                   Keywords |->
                      IF IsCorpus(data) /\ data.Keywords.str # <<>>
                      THEN <<Split(data.Keywords.str, ",")>>
                      ELSE <<>>],
               LicenseInfo |-> <<[URI |-> data.License]>>]]>>]

(***************************************************************************)
(* The hook (CNCHook).  Each operation gives its result wrapper and the    *)
(* repository calls it made.  ioErr: the repository query fails; rows:     *)
(* the rows the list query returns.                                        *)
(***************************************************************************)
\* SupportsSets of an engine that claims set support
SupportsSetsYes == TRUE

\* CNCHook.SupportsSets
SupportsSets == FALSE

\* SupportedMetadataPrefixes with a format no converter exists for
SupportedMetadataPrefixesMarc ==
    <<DublinCoreMetadataPrefix, CMDIMetadataPrefix, "marc21">>

\* CNCHook.SupportedMetadataPrefixes
SupportedMetadataPrefixes == <<DublinCoreMetadataPrefix, CMDIMetadataPrefix>>

\* collections.SliceContains
SliceContains(slice, v) == \E i \in 1..Len(slice) : slice[i] = v

\* a repository call: the operation, its arguments, whether it returned an
\* error, and the ids of the rows a list query returned
Call(op, arg, err, rows) == [op |-> op, arg |-> arg, err |-> err, rows |-> rows]

\* CNCHook.Identify once GetFirstDate has returned first
IdentifyAnswer(first) ==
    LET result == NewResultWrapper(
                      [BaseURL |-> "conf.RepositoryInfo.BaseURL",
                       EarliestDatestamp |-> In(first.date, "UTC"),
                       DeletedRecord |-> "no",
                       Granularity |-> "YYYY-MM-DDThh:mm:ssZ",
                       ProtocolVersion |-> ""])
    IN  [ans |-> IF first.err
                 THEN [result EXCEPT !.HTTPCode = StatusInternalServerError]
                 ELSE result,
         calls |-> <<Call("GetFirstDate", <<>>, first.err, <<>>)>>]

\* CNCHook.Identify
HookIdentify(table, ioErr) == IdentifyAnswer(GetFirstDate(table, ioErr))

\* formats.GetDublinCoreFormat
GetDublinCoreFormat ==
    [MetadataPrefix |-> DublinCoreMetadataPrefix,
     Schema |-> "http://www.openarchives.org/OAI/2.0/oai_dc.xsd",
     MetadataNamespace |-> "http://www.openarchives.org/OAI/2.0/oai_dc/"]

\* formats.GetCMDIFormat
GetCMDIFormat ==
    [MetadataPrefix |-> CMDIMetadataPrefix,
     Schema |-> "profile.GetSchemaURL()",
     MetadataNamespace |-> "http://www.clarin.eu/cmd/"]

\* CNCHook.ListMetadataFormats once IdentifierExists has returned r
ExistsAnswer(req, r) ==
    LET ans == NewResultWrapper(<<GetDublinCoreFormat, GetCMDIFormat>>)
    IN  [ans |-> IF r.err
                 THEN [ans EXCEPT !.HTTPCode = StatusInternalServerError]
                 ELSE IF ~r.exists
                 THEN [ans EXCEPT
                         !.Errors = ErrorsAdd(@, ErrorCodeIDDoesNotExist,
                                        <<"Result for ID not found", req.Identifier>>),
                         !.HTTPCode = StatusNotFound]
                 ELSE ans,
         calls |-> <<Call("IdentifierExists", <<req.Identifier>>, r.err, <<>>)>>]

\* CNCHook.ListMetadataFormats
HookListMetadataFormats(req, table, ioErr) ==
    IF req.Identifier # ""
    THEN ExistsAnswer(req, IdentifierExists(table, req.Identifier, ioErr))
    ELSE [ans |-> NewResultWrapper(<<GetDublinCoreFormat, GetCMDIFormat>>),
          calls |-> <<>>]

\* the zero OAIPMHRecord
EmptyRecord == [Header |-> <<>>, Metadata |-> <<>>]

\* CNCHook.GetRecord once GetRecordInfo has returned r
RecordAnswer(req, r) ==
    LET ans == NewResultWrapper(EmptyRecord)
    IN  [ans |->
            IF r.err
            THEN [ans EXCEPT !.HTTPCode = StatusInternalServerError]
            ELSE IF r.data = <<>>
            THEN [ans EXCEPT
                    !.Errors = ErrorsAdd(@, ErrorCodeIDDoesNotExist,
                                   <<"Result for ID not found", req.Identifier>>),
                    !.HTTPCode = StatusNotFound]
            ELSE CASE req.MetadataPrefix = DublinCoreMetadataPrefix ->
                        [ans EXCEPT !.Data = dcRecordFromData(r.data[1])]
                   [] req.MetadataPrefix = CMDIMetadataPrefix ->
                        [ans EXCEPT !.Data = cmdiLindatClarinRecordFromData(r.data[1])]
                   [] OTHER ->
                        [ans EXCEPT
                           !.Errors = ErrorsAdd(@, ErrorCodeCannotDisseminateFormat,
                                          <<"Unknown metadata format">>),
                           !.HTTPCode = StatusBadRequest],
         calls |-> <<Call("GetRecordInfo", <<req.Identifier>>, r.err, <<>>)>>]

\* CNCHook.GetRecord
HookGetRecord(req, table, ioErr) ==
    RecordAnswer(req, GetRecordInfo(table, req.Identifier, ioErr))

\* the header of a converted record (*record.Header)
HeaderOf(record) == record.Header[1]

\* Map(f, s) for the conversion loops
RECURSIVE MapRecords(_, _, _)
MapRecords(data, prefix, headersOnly) ==
    IF data = <<>> THEN <<>>
    ELSE <<IF headersOnly
           THEN HeaderOf(IF prefix = DublinCoreMetadataPrefix
                         THEN dcRecordFromData(Head(data))
                         ELSE cmdiLindatClarinRecordFromData(Head(data)))
           ELSE IF prefix = DublinCoreMetadataPrefix
           THEN dcRecordFromData(Head(data))
           ELSE cmdiLindatClarinRecordFromData(Head(data))>>
             \o MapRecords(Tail(data), prefix, headersOnly)

\* ListAnswer without the test for an empty result
ListAnswerEmptyOK(req, rows, headersOnly, r) ==
    [ans |-> IF r.err
             THEN [NewResultWrapper(<<>>) EXCEPT
                     !.HTTPCode = StatusInternalServerError]
             ELSE NewResultWrapper(
                      MapRecords(r.data, req.MetadataPrefix, headersOnly)),
     calls |-> <<Call("ListRecordInfo", <<req.From, req.Until>>, r.err, rows)>>]

\* CNCHook.ListIdentifiers and CNCHook.ListRecords once ListRecordInfo has
\* returned r
ListAnswer(req, rows, headersOnly, r) ==
    LET ans == NewResultWrapper(<<>>)
    IN  [ans |->
            IF r.err
            THEN [ans EXCEPT !.HTTPCode = StatusInternalServerError]
            ELSE IF Len(r.data) = 0
            THEN [ans EXCEPT
                    !.Errors = ErrorsAdd(@, ErrorCodeNoRecordsMatch, <<"No records">>)]
            ELSE IF \/ req.MetadataPrefix = DublinCoreMetadataPrefix
                    \/ req.MetadataPrefix = CMDIMetadataPrefix
            THEN [ans EXCEPT
                    !.Data = MapRecords(r.data, req.MetadataPrefix, headersOnly)]
            ELSE [ans EXCEPT
                    !.Errors = ErrorsAdd(@, ErrorCodeCannotDisseminateFormat,
                                   <<"Unknown metadata format">>),
                    !.HTTPCode = StatusBadRequest],
         calls |-> <<Call("ListRecordInfo", <<req.From, req.Until>>, r.err, rows)>>]

\* the common body of CNCHook.ListIdentifiers and CNCHook.ListRecords
HookList(req, table, ioErr, rows, headersOnly) ==
    ListAnswer(req, rows, headersOnly, ListRecordInfo(table, rows, ioErr))

\* CNCHook.ListIdentifiers
HookListIdentifiers(req, table, ioErr, rows) ==
    HookList(req, table, ioErr, rows, TRUE)

\* CNCHook.ListRecords
HookListRecords(req, table, ioErr, rows) ==
    HookList(req, table, ioErr, rows, FALSE)

\* CNCHook.ListSets
HookListSets(req) == [ans |-> NewResultWrapper(<<>>), calls |-> <<>>]

(***************************************************************************)
(* The handler (VLOHandler).                                               *)
(***************************************************************************)
\* the keys the allowed-arguments loop of getReqResp rejects; the loop
\* ranges over a Go map, so which of them it meets first is not determined
InvalidArgs(verb, args) == {k \in DOMAIN args : ~ValidateArg(verb, k)}

\* VerbErrors without the return after the missing-verb error
VerbErrorsNoReturn(args) ==
    LET e1 == IF ~Has(args, ArgVerb)
              THEN ErrorsAdd(<<>>, ErrorCodeBadArgument,
                             <<"Missing required argument", ArgVerb>>)
              ELSE <<>>
    IN  IF ~Validate(getTypedArg(args, ArgVerb))
        THEN ErrorsAdd(e1, ErrorCodeBadVerb,
                       <<"Invalid verb", getTypedArg(args, ArgVerb)>>)
        ELSE e1

\* getReqResp, "get verb operation": the errors of the verb checks
VerbErrors(args) ==
    IF ~Has(args, ArgVerb)
    THEN ErrorsAdd(<<>>, ErrorCodeBadArgument,
                   <<"Missing required argument", ArgVerb>>)
    ELSE IF ~Validate(getTypedArg(args, ArgVerb))
    THEN ErrorsAdd(<<>>, ErrorCodeBadVerb,
                   <<"Invalid verb", getTypedArg(args, ArgVerb)>>)
    ELSE <<>>

\* the argument checks with the allowed arguments checked first
ArgErrorsAllowedFirst(verb, args, badKey) ==
    IF InvalidArgs(verb, args) # {}
    THEN ErrorsAdd(<<>>, ErrorCodeBadArgument,
                   <<"Invalid argument", badKey, "for verb", verb>>)
    ELSE IF ValidateRequiredArgs(verb, args) # ""
    THEN ErrorsAdd(<<>>, ErrorCodeBadArgument,
                   <<"Missing required argument",
                     ValidateRequiredArgs(verb, args), "for verb", verb>>)
    ELSE <<>>

\* getReqResp, "check required arguments" and "check allowed arguments":
\* the errors of the argument checks of a valid verb.  badKey is the first
\* rejected key the loop over the map meets.
ArgErrors(verb, args, badKey) ==
    LET missing == ValidateRequiredArgs(verb, args)
    IN  IF missing # ""
        THEN ErrorsAdd(<<>>, ErrorCodeBadArgument,
                       <<"Missing required argument", missing, "for verb", verb>>)
        ELSE IF InvalidArgs(verb, args) # {}
        THEN ErrorsAdd(<<>>, ErrorCodeBadArgument,
                       <<"Invalid argument", badKey, "for verb", verb>>)
        ELSE <<>>

\* the request with its verb set, as getReqResp returns it on an argument error
VerbRequest(args) == [EmptyRequest EXCEPT !.Verb = getTypedArg(args, ArgVerb)]

\* getReqResp returning after a protocol error
Failed(req, errors) ==
    [err |-> FALSE, req |-> req,
     resp |-> [NewOAIPMHResponse(req) EXCEPT !.Errors = @ \o errors]]

\* getReqResp returning nil, nil, err
NilResult ==
    [err |-> TRUE, req |-> EmptyRequest, resp |-> NewOAIPMHResponse(EmptyRequest)]

\* getReqResp returning req, resp, nil at its end
Passed(req) == [err |-> FALSE, req |-> req, resp |-> NewOAIPMHResponse(req)]

\* getReqResp from the `from` block on, pFrom and pUntil being the parse
\* results of the two dates
DatedRequest(args, pFrom, pUntil) ==
    IF getTypedArg(args, ArgFrom) # "" /\ pFrom.err THEN NilResult
    ELSE IF getTypedArg(args, ArgUntil) # "" /\ pUntil.err THEN NilResult
    ELSE Passed([VerbRequest(args) EXCEPT
                   !.Identifier = getTypedArg(args, ArgIdentifier),
                   !.MetadataPrefix = getTypedArg(args, ArgMetadataPrefix),
                   !.From = IF getTypedArg(args, ArgFrom) # ""
                            THEN <<pFrom.time>> ELSE <<>>,
                   !.Until = IF getTypedArg(args, ArgUntil) # ""
                             THEN <<pUntil.time>> ELSE <<>>,
                   !.Set = getTypedArg(args, ArgSet),
                   !.ResumptionToken = getTypedArg(args, ArgResumptionToken)])

\* VLOHandler.getReqResp.  err: the error result; req and resp are nil
\* then (given here as the empty request and its envelope).
getReqResp(args, badKey) ==
    IF VerbErrors(args) # <<>>
    THEN Failed(IF Has(args, ArgVerb) THEN VerbRequest(args) ELSE EmptyRequest,
                VerbErrors(args))
    ELSE IF ArgErrors(getTypedArg(args, ArgVerb), args, badKey) # <<>>
    THEN Failed(VerbRequest(args),
                ArgErrors(getTypedArg(args, ArgVerb), args, badKey))
    ELSE DatedRequest(args, ParseFrom(getTypedArg(args, ArgFrom)),
                      ParseUntil(getTypedArg(args, ArgUntil)))

\* writeXMLResponse(ctx.Writer, code, value)
writeXMLResponse(code, value) ==
    [kind |-> "xml", status |-> code, body |-> <<value>>]

\* ctx.AbortWithStatus(code): a bare status, no body
AbortWithStatus(code) == [kind |-> "abort", status |-> code, body |-> <<>>]

\* what a handler leaves behind: the HTTP response, the hook operations it
\* invoked and the repository calls they made
Outcome(response, hook, calls) ==
    [response |-> response, hook |-> hook, calls |-> calls]

\* Finish writing the envelope whatever the status
FinishAlwaysWrite(resp, httpCode, ansErrors, hook, calls) ==
    Outcome(writeXMLResponse(httpCode, [resp EXCEPT !.Errors = @ \o ansErrors]),
            hook, calls)

\* the tail of handleRequest: append the hook's errors, then write
Finish(resp, httpCode, ansErrors, hook, calls) ==
    IF httpCode >= 400 /\ ~HasErrors(resp.Errors \o ansErrors)
    THEN Outcome(AbortWithStatus(httpCode), hook, calls)
    ELSE Outcome(writeXMLResponse(httpCode,
                     [resp EXCEPT !.Errors = @ \o ansErrors]),
                 hook, calls)

\* Reject answering every failed precondition with HTTP 400
RejectBadRequest(resp, code, message, httpCode) ==
    Outcome(writeXMLResponse(StatusBadRequest,
                [resp EXCEPT !.Errors = ErrorsAdd(@, code, message)]),
            <<>>, <<>>)

\* the early return of a failed precondition in handleRequest
Reject(resp, code, message, httpCode) ==
    Outcome(writeXMLResponse(httpCode,
                [resp EXCEPT !.Errors = ErrorsAdd(@, code, message)]),
            <<>>, <<>>)

\* a case of handleRequest once the hook operation of the verb has returned
\* h: its data becomes the payload of the verb when it reports no error
Answer(verb, resp, h) ==
    Finish(IF NoError(h.ans)
           THEN [resp EXCEPT ![verb] = <<h.ans.Data>>]
           ELSE resp,
           h.ans.HTTPCode, h.ans.Errors, <<verb>>, h.calls)

\* the Identify case once hook.Identify has returned h: the payload gets
\* the request URL and the protocol version
AnswerIdentify(resp, h) ==
    Finish(IF NoError(h.ans)
           THEN [resp EXCEPT
                   !.Identify = <<[h.ans.Data EXCEPT
                                     !.BaseURL = "basePath/oai",
                                     !.ProtocolVersion = resp.ProtocolVersion]>>]
           ELSE resp,
           h.ans.HTTPCode, h.ans.Errors, <<VerbIdentify>>, h.calls)

\* VLOHandler.handleRequest
handleRequest(req, resp, table, ioErr, rows) ==
    CASE req.Verb = VerbIdentify ->
            AnswerIdentify(resp, HookIdentify(table, ioErr))
      [] req.Verb = VerbGetRecord ->
            IF ~SliceContains(SupportedMetadataPrefixes, req.MetadataPrefix)
            THEN Reject(resp, ErrorCodeCannotDisseminateFormat,
                        <<"Unknown metadata format">>, StatusBadRequest)
            ELSE Answer(VerbGetRecord, resp, HookGetRecord(req, table, ioErr))
      [] req.Verb = VerbListIdentifiers ->
            IF ~SliceContains(SupportedMetadataPrefixes, req.MetadataPrefix)
            THEN Reject(resp, ErrorCodeCannotDisseminateFormat,
                        <<"Unknown metadata format">>, StatusBadRequest)
            ELSE IF req.Set # "" /\ ~SupportsSets
            THEN Reject(resp, ErrorCodeNoSetHierarchy,
                        <<"Sets functionality not implemented">>, StatusNotImplemented)
            ELSE Answer(VerbListIdentifiers, resp,
                        HookListIdentifiers(req, table, ioErr, rows))
      [] req.Verb = VerbListMetadataFormats ->
            Answer(VerbListMetadataFormats, resp,
                   HookListMetadataFormats(req, table, ioErr))
      [] req.Verb = VerbListRecords ->
            IF ~SliceContains(SupportedMetadataPrefixes, req.MetadataPrefix)
            THEN Reject(resp, ErrorCodeCannotDisseminateFormat,
                        <<"Unknown metadata format">>, StatusBadRequest)
            ELSE IF req.Set # "" /\ ~SupportsSets
            THEN Reject(resp, ErrorCodeNoSetHierarchy,
                        <<"Sets functionality not implemented">>, StatusNotImplemented)
            ELSE Answer(VerbListRecords, resp,
                        HookListRecords(req, table, ioErr, rows))
      [] req.Verb = VerbListSets ->
            IF ~SupportsSets
            THEN Reject(resp, ErrorCodeNoSetHierarchy,
                        <<"Sets functionality not implemented">>, StatusNotImplemented)
            ELSE Answer(VerbListSets, resp, HookListSets(req))
      [] OTHER ->
            Finish([resp EXCEPT
                      !.Errors = ErrorsAdd(@, ErrorCodeBadArgument,
                                     <<"Verb not implemented", req.Verb>>)],
                   StatusNotImplemented, <<>>, <<>>, <<>>)

\* HandleOAI without the return after a protocol error of getReqResp
HandleOAINoReturn(r, table, ioErr, rows) ==
    IF r.err
    THEN Outcome(AbortWithStatus(StatusInternalServerError), <<>>, <<>>)
    ELSE handleRequest(r.req, r.resp, table, ioErr, rows)

\* the body HandleOAIGet and HandleOAIPost share once getReqResp has
\* returned r
HandleOAI(r, table, ioErr, rows) ==
    IF r.err
    THEN Outcome(AbortWithStatus(StatusInternalServerError), <<>>, <<>>)
    ELSE IF HasErrors(r.resp.Errors)
    THEN Outcome(writeXMLResponse(StatusBadRequest, r.resp), <<>>, <<>>)
    ELSE handleRequest(r.req, r.resp, table, ioErr, rows)

\* gin's ctx.DefaultQuery on the query map a
DefaultQuery(a, key, defaultValue) == IF Has(a, key) THEN a[key] ELSE defaultValue

\* the request HandleSelfLink builds from the path parameter and the query
SelfLinkRequest(recordId, query) ==
    [EmptyRequest EXCEPT
       !.Identifier = recordId,
       !.MetadataPrefix = DefaultQuery(query, "format", "oai_dc")]

\* VLOHandler.HandleSelfLink once hook.GetRecord has returned h
SelfLink(h) ==
    IF h.ans.HTTPCode >= 400
    THEN Outcome(AbortWithStatus(h.ans.HTTPCode), <<VerbGetRecord>>, h.calls)
    ELSE Outcome(writeXMLResponse(h.ans.HTTPCode, h.ans.Data.Metadata[1]),
                 <<VerbGetRecord>>, h.calls)

(***************************************************************************)
(* Inputs: repository contents and request parameter maps.                 *)
(***************************************************************************)
Row(type, deleted, public, parallel, locale, created, updated) ==
    [type |-> type, deleted |-> deleted, public |-> public,
     parallel |-> parallel, locale |-> locale,
     created |-> created, updated |-> updated]

LocaleCS == <<"cs", "_", "CZ">>

\* start of day d, in hours
DayStart(d) == DayHours * d

\* the rows of the modelled repositories: a public corpus created on day 0,
\* a service last updated at the start of the last day, a deleted corpus and
\* a corpus public only through its parallel corpus
RowKinds ==
    {Row(CorpusMetadataType, FALSE, TRUE, FALSE, String(LocaleCS), 0, 0),
     Row(ServiceMetadataType, FALSE, FALSE, FALSE, NullString, 0, DayStart(MaxDay)),
     Row(CorpusMetadataType, TRUE, TRUE, FALSE, NullString, 0, 0),
     Row(CorpusMetadataType, FALSE, FALSE, TRUE, NullString, DayStart(MaxDay), 0)}

\* vlo_metadata_common as a function from the ids in use to rows; ids are
\* given out in sequence and a deleted row stays in the table
Tables == UNION {[1..n -> RowKinds] : n \in 0..MaxId}

\* a key outside the protocol's argument names
ArgOther == "foo"

ArgKeys ==
    {ArgVerb, ArgIdentifier, ArgMetadataPrefix, ArgFrom, ArgUntil, ArgSet,
     ArgResumptionToken, ArgOther}

\* the values a request may give to a key
ArgValues(k) ==
    CASE k = ArgVerb -> Verbs \cup {"", "getrecord"}
      [] k = ArgIdentifier -> {"", ToString(1), ToString(MaxId + 1)}
      [] k = ArgMetadataPrefix ->
            {"", DublinCoreMetadataPrefix, CMDIMetadataPrefix, "marc21"}
      [] k = ArgFrom ->
            {"", BadDate, DateStr(MaxDay), TsStr(MaxDay, "P1")}
      [] k = ArgUntil ->
            {"", BadDateT, DateStr(0), TsStr(MaxDay, "Z")}
      [] k = ArgSet -> {"", "corpora"}
      [] k = ArgResumptionToken -> {"token"}
      [] OTHER -> {"bar"}

RECURSIVE MapsOver(_)
\* the parameter maps with exactly the keys K
MapsOver(K) ==
    IF K = {} THEN {[k \in {} |-> ""]}
    ELSE LET k == CHOOSE k \in K : TRUE
         IN  {[j \in K |-> IF j = k THEN v ELSE m[j]] :
                 m \in MapsOver(K \ {k}), v \in ArgValues(k)}

RequestArgs ==
    UNION {MapsOver(K) : K \in {K \in SUBSET ArgKeys : Cardinality(K) <= MaxArgs}}

(***************************************************************************)
(* State and actions.                                                      *)
(***************************************************************************)
VARIABLES
    table,      \* the repository content
    pc,         \* "idle" before the request, "done" after it
    formErr,    \* POST only: ctx.Request.ParseForm failed
    args,       \* the parameter map the handler read
    response,   \* the HTTP response written
    hookCalls,  \* the hook operations invoked, in order
    dbCalls,    \* the repository calls made, in order
    input,      \* the argument of a conversion function called on its own,
                \* or the last statement of the database session
    output,     \* what the conversion function returned
    kontext     \* the tables the trigger scripts work on and the user
                \* variables of the database session

vars ==
    <<table, pc, formErr, args, response, hookCalls, dbCalls, input, output,
      kontext>>

NoArgs == [k \in {} |-> ""]

NoResponse == [kind |-> "none", status |-> 0, body |-> <<>>]

Init ==
    /\ table \in Tables
    /\ pc = "idle"
    /\ formErr = FALSE
    /\ args = NoArgs
    /\ response = NoResponse
    /\ hookCalls = <<>>
    /\ dbCalls = <<>>
    /\ input = <<>>
    /\ output = <<>>
    /\ kontext = <<>>

\* the rows the list query of a request can return, r being what
\* getReqResp makes of the request
ListRows(r) ==
    IF ~r.err /\ ~HasErrors(r.resp.Errors)
       /\ r.req.Verb \in {VerbListIdentifiers, VerbListRecords}
    THEN ListRowOrders(table, r.req.From, r.req.Until)
    ELSE {<<>>}

\* the rows a list query of this request can return
RowsFor(a) == ListRows(getReqResp(a, ""))

\* the members of a set of keys, or "" for none
FirstOf(bad) == IF bad = {} THEN {""} ELSE bad

\* the rejected keys the allowed-arguments loop can meet first
BadKeysFor(a) == FirstOf(InvalidArgs(getTypedArg(a, ArgVerb), a))

\* the request with parameter map a is answered with out
Answered(a, out) ==
    /\ args' = a
    /\ response' = out.response
    /\ hookCalls' = out.hook
    /\ dbCalls' = out.calls
    /\ pc' = "done"
    /\ UNCHANGED <<table, input, output, kontext>>

\* the parameter map a is served
Serve(a, badKey, ioErr, rows) ==
    Answered(a, HandleOAI(getReqResp(a, badKey), table, ioErr, rows))

\* VLOHandler.HandleOAIGet
HandleOAIGet ==
    /\ pc = "idle"
    /\ \E a \in RequestArgs :
         \E badKey \in BadKeysFor(a), ioErr \in BOOLEAN, rows \in RowsFor(a) :
            /\ Serve(a, badKey, ioErr, rows)
            /\ formErr' = FALSE

\* VLOHandler.HandleOAIPost
HandleOAIPost ==
    /\ pc = "idle"
    /\ \/ /\ formErr' = TRUE
          /\ args' = NoArgs
          /\ response' = AbortWithStatus(StatusInternalServerError)
          /\ pc' = "done"
          /\ UNCHANGED <<table, hookCalls, dbCalls, input, output, kontext>>
       \/ \E a \in RequestArgs :
            \E badKey \in BadKeysFor(a), ioErr \in BOOLEAN, rows \in RowsFor(a) :
               /\ Serve(a, badKey, ioErr, rows)
               /\ formErr' = FALSE

Next == HandleOAIGet \/ HandleOAIPost

Spec == Init /\ [][Next]_vars

\* the record ids and query maps of the requests to /record/:recordId
RecordIds == {ToString(1), ToString(MaxId + 1)}

RecordQueries ==
    {NoArgs} \cup {[k \in {"format"} |-> v] : v \in ArgValues(ArgMetadataPrefix)}

\* VLOHandler.HandleSelfLink; args records the path parameter with the query
HandleSelfLink ==
    /\ pc = "idle"
    /\ \E recordId \in RecordIds, query \in RecordQueries, ioErr \in BOOLEAN :
         /\ Answered([k \in {"recordId"} \cup DOMAIN query |->
                         IF k = "recordId" THEN recordId ELSE query[k]],
                     SelfLink(HookGetRecord(SelfLinkRequest(recordId, query),
                                            table, ioErr)))
         /\ formErr' = FALSE

\* the requests to the self-link endpoint
SpecSelfLink == Init /\ [][HandleSelfLink]_vars

\* the author blocks (vlo_metadata_common.authors): texts of two letters,
\* space, line feed and carriage return
AuthorBlocks ==
    UNION {[1..n -> {"a", "b", " ", "\n", "\r"}] : n \in 0..MaxLen}

\* no request is being served
NoRequest ==
    /\ table = <<>>
    /\ pc = "idle"
    /\ formErr = FALSE
    /\ args = NoArgs
    /\ response = NoResponse
    /\ hookCalls = <<>>
    /\ dbCalls = <<>>

InitAuthors ==
    NoRequest /\ input \in AuthorBlocks /\ output = <<>> /\ kontext = <<>>

\* a call of getAuthorList
GetAuthorList ==
    /\ pc = "idle"
    /\ output' = getAuthorList(input)
    /\ pc' = "done"
    /\ UNCHANGED <<table, formErr, args, response, hookCalls, dbCalls, input, kontext>>

\* getAuthorList on every author block
SpecAuthors == InitAuthors /\ [][GetAuthorList]_vars

\* the locale strings given to the parser: up to MaxParts tokens of
\* languages, regions and separators, alone and with an encoding suffix
LocaleInputs ==
    {s \o e : s \in UNION {[1..n -> {"en", "xx", "US", "EN", "_", "-"}] :
                              n \in 0..MaxParts},
              e \in {<<>>, <<".", "UTF", "-", "8">>,
                      <<".", "ISO", "_", "8859", "-", "1">>}}

InitLocale ==
    NoRequest /\ input \in LocaleInputs /\ output = <<>> /\ kontext = <<>>

\* a call of CNCMySQLHandler.parseLocale
ParseLocale ==
    /\ pc = "idle"
    /\ output' = parseLocale(input)
    /\ pc' = "done"
    /\ UNCHANGED <<table, formErr, args, response, hookCalls, dbCalls, input, kontext>>

\* parseLocale on every locale string
SpecLocale == InitLocale /\ [][ParseLocale]_vars

\* the records given to the converters: every type with and without a
\* locale, descriptions that are NULL, empty and set, with and without date
\* of issue, authors, size and keywords, without a link and with a link to
\* the wiki and to another host
RecordInputs ==
    [ID : {1}, Date : {DBTime(0)},
     Type : {CorpusMetadataType, ServiceMetadataType, "other"},
     Locale : {<<>>, <<[base |-> "cs", region |-> "CZ"]>>},
     Name : {<<"name">>}, TitleEN : {<<"title">>}, TitleCS : {<<"titul">>},
     DescEN : {NullString, String(<<>>), String(<<"text">>)},
     DescCS : {NullString, String(<<>>), String(<<"popis">>)},
     DateIssued : {<<>>, <<"2024">>},
     License : {<<"licence">>},
     Authors : {<<>>, <<"a", " ", "b">>},
     ContactPerson : {<<"contact">>},
     Link : {NullString, String(<<>>),
             String(<<"https://", "wiki.korpus.cz", "/cnk:", "Foo">>),
             String(<<"https://", "wiki.korpus.cz", "/en:cnk:", "Foo">>),
             String(<<"https://", "example.org", "/cnk:", "Foo">>)},
     Size : {NullInt64, [valid |-> TRUE, int |-> 100]},
     Keywords : {NullString, String(<<"k1", ",", "k2">>)}]

InitConvert ==
    NoRequest /\ input \in RecordInputs /\ output = <<>> /\ kontext = <<>>

\* a call of CNCHook.dcRecordFromData
ConvertDC ==
    /\ pc = "idle"
    /\ output' = dcRecordFromData(input)
    /\ pc' = "done"
    /\ UNCHANGED <<table, formErr, args, response, hookCalls, dbCalls, input, kontext>>

\* a call of CNCHook.cmdiLindatClarinRecordFromData
ConvertCMDI ==
    /\ pc = "idle"
    /\ output' = cmdiLindatClarinRecordFromData(input)
    /\ pc' = "done"
    /\ UNCHANGED <<table, formErr, args, response, hookCalls, dbCalls, input, kontext>>

\* the two converters on every record
SpecConvert == InitConvert /\ [][ConvertDC \/ ConvertCMDI]_vars

(***************************************************************************)
(* The triggers that keep the descriptions of kontext_corpus and of        *)
(* vlo_metadata_common in step (scripts/triggers.sql).  The database has   *)
(* one corpus, with or without its metadata rows, and one service row.     *)
(* A user variable is <<>> when NULL and <<1>> when set to 1.  `used` is   *)
(* the set of tables in use by the statement that invoked a trigger: the   *)
(* server refuses a statement of a trigger that writes to one of them.     *)
(***************************************************************************)
\* the values of a description column: NULL, the empty string and a text
Descriptions == {NullString, String(<<>>), String(<<"text">>)}

\* the flag left as it is after the UPDATE of a trigger
KeepFlag(k, flag) == k

\* SET @flag = NULL after the UPDATE of a trigger, reached unless the
\* UPDATE failed
ResetFlag(k, flag) == IF k.failed THEN k ELSE [k EXCEPT ![flag] = <<>>]

RECURSIVE UpdateCorpus(_, _, _, _)
RECURSIVE UpdateCommon(_, _, _, _, _)

\* sync_descriptions_from_corpora_trig, AFTER UPDATE ON kontext_corpus FOR
\* EACH ROW.  SELECT ... INTO leaves @corpus_metadata_id as it is when the
\* corpus has no row in vlo_metadata_corpus.
sync_descriptions_from_corpora_trig(k, old, new, used) ==
    IF new.description_cs # old.description_cs
          \/ new.description_en # old.description_en
    THEN IF k.metadata_corpus = <<>> /\ k.corpus_metadata_id = <<>>
         THEN IF "vlo_metadata_common" \in used
              THEN [k EXCEPT !.failed = TRUE]
              ELSE [k EXCEPT
                      !.metadata_corpus = <<[corpus_name |-> "c"]>>,
                      !.common = Append(@,
                          [type |-> "corpus", corpus_metadata_id |-> <<1>>,
                           desc_cs |-> new.description_cs,
                           desc_en |-> new.description_en, deleted |-> 1])]
         ELSE IF k.skip_vlo_update = <<>>
         THEN ResetFlag(
                 UpdateCommon([k EXCEPT !.corpus_metadata_id = <<1>>,
                                        !.skip_corpora_update = <<1>>],
                     CHOOSE i \in DOMAIN k.common :
                         k.common[i].corpus_metadata_id = <<1>>,
                     new.description_cs, new.description_en, used),
                 "skip_corpora_update")
         ELSE [k EXCEPT !.corpus_metadata_id = <<1>>]
    ELSE k

\* sync_descriptions_from_metadata_trig, AFTER UPDATE ON vlo_metadata_common
\* FOR EACH ROW
sync_descriptions_from_metadata_trig(k, old, new, used) ==
    IF new.type = "corpus"
          /\ (new.desc_cs # old.desc_cs \/ new.desc_en # old.desc_en)
    THEN IF k.skip_corpora_update = <<>>
         THEN ResetFlag(
                 UpdateCorpus([k EXCEPT !.skip_vlo_update = <<1>>],
                              new.desc_cs, new.desc_en, used),
                 "skip_vlo_update")
         ELSE k
    ELSE k

\* UPDATE kontext_corpus SET description_cs = cs, description_en = en for
\* the corpus, with the trigger it fires; a statement of a trigger is noted
\* in k.updates
UpdateCorpus(k, cs, en, used) ==
    IF "kontext_corpus" \in used THEN [k EXCEPT !.failed = TRUE]
    ELSE sync_descriptions_from_corpora_trig(
             [k EXCEPT !.corpus = [description_cs |-> cs, description_en |-> en],
                       !.updates = IF used = {} THEN @
                                   ELSE Append(@, "kontext_corpus")],
             k.corpus, [description_cs |-> cs, description_en |-> en],
             used \cup {"kontext_corpus"})

\* UPDATE vlo_metadata_common SET desc_cs = cs, desc_en = en for row i, with
\* the trigger it fires
UpdateCommon(k, i, cs, en, used) ==
    IF "vlo_metadata_common" \in used THEN [k EXCEPT !.failed = TRUE]
    ELSE sync_descriptions_from_metadata_trig(
             [k EXCEPT !.common[i].desc_cs = cs, !.common[i].desc_en = en,
                       !.updates = IF used = {} THEN @
                                   ELSE Append(@, "vlo_metadata_common")],
             k.common[i],
             [k.common[i] EXCEPT !.desc_cs = cs, !.desc_en = en],
             used \cup {"vlo_metadata_common"})

\* the end of a statement of the session: a failed statement is rolled
\* back, the user variables stay as they are
Statement(before, after) ==
    IF after.failed
    THEN [after EXCEPT !.corpus = before.corpus, !.common = before.common,
                       !.metadata_corpus = before.metadata_corpus]
    ELSE after

\* the databases a session starts on: the corpus with any descriptions, a
\* service row, and the corpus without metadata rows or with them, the
\* descriptions of the metadata row being any
InitTriggers ==
    /\ NoRequest /\ input = <<>> /\ output = <<>>
    /\ \E cs, en \in Descriptions, rows \in
            {<<>>} \cup {<<[type |-> "corpus", corpus_metadata_id |-> <<1>>,
                           desc_cs |-> mcs, desc_en |-> men, deleted |-> 0]>> :
                            mcs, men \in Descriptions} :
          kontext =
             [corpus |-> [description_cs |-> cs, description_en |-> en],
              metadata_corpus |->
                 IF rows = <<>> THEN <<>> ELSE <<[corpus_name |-> "c"]>>,
              common |->
                 <<[type |-> "service", corpus_metadata_id |-> <<>>,
                    desc_cs |-> NullString, desc_en |-> NullString,
                    deleted |-> 0]>> \o rows,
              corpus_metadata_id |-> <<>>,
              skip_vlo_update |-> <<>>, skip_corpora_update |-> <<>>,
              updates |-> <<>>, failed |-> FALSE]

\* the session runs UPDATE kontext_corpus SET description_cs = ...,
\* description_en = ... on the corpus
UpdateCorpusDescriptions ==
    /\ \E cs, en \in Descriptions :
          /\ input' = [table |-> "kontext_corpus", id |-> 1,
                       cs |-> cs, en |-> en, before |-> kontext]
          /\ kontext' = Statement(kontext,
                 UpdateCorpus([kontext EXCEPT !.updates = <<>>, !.failed = FALSE],
                              cs, en, {}))
    /\ pc' = "done"
    /\ UNCHANGED <<table, formErr, args, response, hookCalls, dbCalls, output>>

\* the session runs UPDATE vlo_metadata_common SET desc_cs = ..., desc_en =
\* ... on one row
UpdateMetadataDescriptions ==
    /\ \E i \in DOMAIN kontext.common, cs, en \in Descriptions :
          /\ input' = [table |-> "vlo_metadata_common", id |-> i,
                       cs |-> cs, en |-> en, before |-> kontext]
          /\ kontext' = Statement(kontext,
                 UpdateCommon([kontext EXCEPT !.updates = <<>>, !.failed = FALSE],
                              i, cs, en, {}))
    /\ pc' = "done"
    /\ UNCHANGED <<table, formErr, args, response, hookCalls, dbCalls, output>>

\* a session of UPDATE statements on the two tables
SpecTriggers ==
    InitTriggers /\ [][UpdateCorpusDescriptions \/ UpdateMetadataDescriptions]_vars

(***************************************************************************)
(* Properties.                                                             *)
(***************************************************************************)
\* the handler read the parameter map of the request and has answered
Parsed == pc = "done" /\ ~formErr

\* the envelope written (meaningful when response.kind = "xml")
Body == response.body[1]

ErrorCodes(b) == {b.Errors[i].Code : i \in 1..Len(b.Errors)}

\* the result payloads of an envelope that are set; a payload field has
\* the name of its verb
Populated(b) ==
    {f \in {"Identify", "GetRecord", "ListIdentifiers", "ListMetadataFormats",
            "ListRecords", "ListSets"} : b[f] # <<>>}

\* the validation stage of the request recorded a protocol error
ValidationFailed ==
    \E k \in BadKeysFor(args) :
        ~getReqResp(args, k).err /\ HasErrors(getReqResp(args, k).resp.Errors)

\* the request passed the validation stage: no error result, no protocol error
Validated ==
    /\ Parsed
    /\ ~getReqResp(args, "").err
    /\ ~HasErrors(getReqResp(args, "").resp.Errors)

\* C1: every envelope written carries either a non-empty error list and no
\* result payload, or no error and exactly the payload of the request's verb.
C1_ErrorXorVerbPayload ==
    response.kind = "xml" =>
        \/ HasErrors(Body.Errors) /\ Populated(Body) = {}
        \/ ~HasErrors(Body.Errors)
              /\ Populated(Body) = {getTypedArg(args, ArgVerb)}

\* a ListRecords request answered with a list of two records, no error
C1_Witness ==
    /\ response.kind = "xml"
    /\ ~HasErrors(Body.Errors)
    /\ Populated(Body) = {"ListRecords"}
    /\ Len(Body.ListRecords[1]) = 2

\* C2: when the validation stage records a protocol error, no hook operation
\* is invoked, the repository is not accessed, and the response is the
\* envelope of the validation stage with HTTP 400.
C2_ValidationErrorShortCircuits ==
    (Parsed /\ ValidationFailed) =>
        /\ hookCalls = <<>>
        /\ dbCalls = <<>>
        /\ response.kind = "xml"
        /\ response.status = 400
        /\ \E k \in BadKeysFor(args) : Body = getReqResp(args, k).resp

\* an Identify request with an argument Identify does not allow: rejected,
\* although the verb alone could have been dispatched
C2_Witness ==
    /\ Parsed /\ ValidationFailed
    /\ getTypedArg(args, ArgVerb) = "Identify"
    /\ Has(args, ArgIdentifier)
    /\ response.status = 400 /\ hookCalls = <<>>

\* C3: a parameter map without the key verb is answered with exactly one
\* error, badArgument, HTTP 400 and no result payload, whatever its other keys.
C3_MissingVerb ==
    (Parsed /\ ~Has(args, ArgVerb)) =>
        /\ response.kind = "xml"
        /\ response.status = 400
        /\ Len(Body.Errors) = 1
        /\ Body.Errors[1].Code = "badArgument"
        /\ Populated(Body) = {}

\* a request without verb but with a full set of GetRecord arguments
C3_Witness ==
    /\ Parsed /\ ~Has(args, ArgVerb)
    /\ Has(args, ArgIdentifier) /\ Has(args, ArgMetadataPrefix)
    /\ response.status = 400
    /\ Body.Errors[1].Message = <<"Missing required argument", "verb">>

\* C4: a verb value that is not exactly one of the six verbs is answered with
\* badVerb and never with badArgument, whatever the other arguments.
C4_UnknownVerb ==
    (Parsed /\ Has(args, ArgVerb)
        /\ getTypedArg(args, ArgVerb) \notin
              {"Identify", "GetRecord", "ListIdentifiers",
               "ListMetadataFormats", "ListRecords", "ListSets"}) =>
        /\ response.kind = "xml"
        /\ "badVerb" \in ErrorCodes(Body)
        /\ "badArgument" \notin ErrorCodes(Body)

\* the verb in the wrong case, with none of GetRecord's required arguments
C4_Witness ==
    /\ Parsed /\ getTypedArg(args, ArgVerb) = "getrecord"
    /\ ~Has(args, ArgIdentifier) /\ ~Has(args, ArgMetadataPrefix)
    /\ response.kind = "xml"
    /\ ErrorCodes(Body) = {"badVerb"}

\* the grammar table: the required arguments of a verb, in the order of
\* the table, and the arguments it allows beyond verb
RequiredOf(v) ==
    CASE v = "GetRecord" -> <<"identifier", "metadataPrefix">>
      [] v \in {"ListIdentifiers", "ListRecords"} -> <<"metadataPrefix">>
      [] OTHER -> <<>>

AllowedOf(v) ==
    CASE v = "GetRecord" -> {"identifier", "metadataPrefix"}
      [] v = "ListMetadataFormats" -> {"identifier"}
      [] v \in {"ListIdentifiers", "ListRecords"} ->
            {"metadataPrefix", "from", "until", "set", "resumptionToken"}
      [] v = "ListSets" -> {"resumptionToken"}
      [] OTHER -> {}

\* the request names one of the six verbs
VerbValid ==
    /\ Parsed /\ Has(args, ArgVerb)
    /\ args[ArgVerb] \in {"Identify", "GetRecord", "ListIdentifiers",
                          "ListMetadataFormats", "ListRecords", "ListSets"}

\* the required arguments the request omits, in table order
Omitted ==
    SelectSeq(RequiredOf(getTypedArg(args, ArgVerb)), LAMBDA a : ~Has(args, a))

\* the keys of the request outside the verb's allowed set
Outside ==
    {k \in DOMAIN args :
        k # "verb" /\ k \notin AllowedOf(getTypedArg(args, ArgVerb))}

\* the response is an envelope with exactly one error, of code c
OnlyError(c) ==
    /\ response.kind = "xml"
    /\ Len(Body.Errors) = 1
    /\ Body.Errors[1].Code = c

\* C5 (as amended): a request with a valid verb that omits required arguments
\* is answered with one badArgument naming the first omitted one, in the order
\* identifier, metadataPrefix; a request that supplies all required arguments
\* is never answered with a missing-argument error.
C5_FirstOmittedNamed ==
    VerbValid =>
        /\ Omitted # <<>> =>
              /\ OnlyError("badArgument")
              /\ response.status = 400
              /\ Body.Errors[1].Message =
                    <<"Missing required argument", Omitted[1],
                      "for verb", args[ArgVerb]>>
        /\ Omitted = <<>> =>
              (response.kind = "xml" =>
                  \A i \in 1..Len(Body.Errors) :
                      Body.Errors[i].Message[1] # "Missing required argument")

\* GetRecord with an identifier but without metadataPrefix
C5_Witness ==
    /\ VerbValid /\ args[ArgVerb] = "GetRecord"
    /\ Omitted = <<"metadataPrefix">>
    /\ OnlyError("badArgument")
    /\ Body.Errors[1].Message[2] = "metadataPrefix"

\* C5 as stated: every omitted required argument is named by a badArgument
C5_EveryOmittedNamed ==
    VerbValid =>
        \A n \in 1..Len(Omitted) :
            /\ response.kind = "xml"
            /\ \E i \in 1..Len(Body.Errors) :
                  /\ Body.Errors[i].Code = "badArgument"
                  /\ Body.Errors[i].Message[2] = Omitted[n]

\* C6 (as amended): ValidateArg accepts a key exactly when it is verb or in
\* the verb's allowed set; a request with all required arguments and keys
\* outside that set is answered with one badArgument naming one of those keys.
C6_OutsideKeyNamed ==
    /\ \A v \in Verbs, k \in ArgKeys :
          ValidateArg(v, k) <=> (k = "verb" \/ k \in AllowedOf(v))
    /\ (VerbValid /\ Omitted = <<>> /\ Outside # {}) =>
          /\ OnlyError("badArgument")
          /\ response.status = 400
          /\ \E k \in Outside :
                Body.Errors[1].Message =
                    <<"Invalid argument", k, "for verb", args[ArgVerb]>>

\* ListMetadataFormats with a metadataPrefix, a key other verbs allow
C6_Witness ==
    /\ VerbValid /\ args[ArgVerb] = "ListMetadataFormats"
    /\ Outside = {"metadataPrefix"}
    /\ OnlyError("badArgument")
    /\ Body.Errors[1].Message[2] = "metadataPrefix"

\* C6 as stated: every supplied key outside the set is named by the error
C6_EveryOutsideKeyNamed ==
    (VerbValid /\ Omitted = <<>>) =>
        \A k \in Outside :
            /\ response.kind = "xml"
            /\ \E i \in 1..Len(Body.Errors) :
                  /\ Body.Errors[i].Code = "badArgument"
                  /\ Body.Errors[i].Message[2] = k

\* C7: a validated GetRecord, ListIdentifiers or ListRecords request whose
\* metadataPrefix is neither oai_dc nor cmdi (empty included) is answered with
\* cannotDisseminateFormat and HTTP 400, without payload, without invoking the
\* hook operation and without access to the repository.
C7_UnsupportedFormat ==
    (Validated
        /\ args[ArgVerb] \in {"GetRecord", "ListIdentifiers", "ListRecords"}
        /\ args[ArgMetadataPrefix] \notin {"oai_dc", "cmdi"}) =>
        /\ OnlyError("cannotDisseminateFormat")
        /\ response.status = 400
        /\ Populated(Body) = {}
        /\ hookCalls = <<>>
        /\ dbCalls = <<>>

\* GetRecord of a stored, visible record with an empty metadataPrefix
C7_Witness ==
    /\ Validated /\ args[ArgVerb] = "GetRecord"
    /\ args[ArgMetadataPrefix] = ""
    /\ GetRecordInfo(table, args[ArgIdentifier], FALSE).data # <<>>
    /\ OnlyError("cannotDisseminateFormat")

\* the request is one the engine refuses for lack of set support; a set
\* argument counts when its value is not empty
SetRequest(withSet) ==
    /\ Validated
    /\ \/ args[ArgVerb] = "ListSets"
       \/ /\ args[ArgVerb] \in {"ListIdentifiers", "ListRecords"}
          /\ withSet
          /\ args[ArgMetadataPrefix] \in {"oai_dc", "cmdi"}

NoSetHierarchyAnswer ==
    /\ OnlyError("noSetHierarchy")
    /\ response.status = 501
    /\ Populated(Body) = {}
    /\ hookCalls = <<>>
    /\ dbCalls = <<>>

\* C8 (as amended): a validated ListIdentifiers or ListRecords request with a
\* supported metadataPrefix and a set argument of non-empty value, and every
\* validated ListSets request, is answered with noSetHierarchy and HTTP 501
\* without invoking the hook's list operations.
C8_NoSetHierarchy ==
    SetRequest(getTypedArg(args, ArgSet) # "") => NoSetHierarchyAnswer

\* ListIdentifiers over a non-empty repository with set=corpora
C8_Witness ==
    /\ SetRequest(getTypedArg(args, ArgSet) # "")
    /\ args[ArgVerb] = "ListIdentifiers"
    /\ ListMatches(table, <<>>, <<>>) # {}
    /\ NoSetHierarchyAnswer

\* C8 as stated: the set argument counts whatever its value
C8_AnySetValue ==
    SetRequest(Has(args, ArgSet)) => NoSetHierarchyAnswer

\* the rows of the repository the identifier of the request names
Named == {i \in DOMAIN table : ToString(i) = getTypedArg(args, ArgIdentifier)}

\* the one repository call of the request returned without failure
LookupAnswered(op) ==
    /\ Len(dbCalls) = 1
    /\ dbCalls[1].op = op
    /\ ~dbCalls[1].err

IdDoesNotExistAnswer ==
    /\ OnlyError("idDoesNotExist")
    /\ response.status = 404
    /\ Populated(Body) = {}

\* a validated GetRecord request with a supported metadataPrefix whose
\* repository lookup returned
GetRecordAnswered ==
    /\ Validated /\ args[ArgVerb] = "GetRecord"
    /\ args[ArgMetadataPrefix] \in {"oai_dc", "cmdi"}
    /\ LookupAnswered("GetRecordInfo")

\* C9: for a GetRecord request with a supported metadataPrefix, when the
\* repository finds no non-deleted record for the identifier (in particular
\* when no row has that id, or the row is marked deleted) the answer is
\* idDoesNotExist with HTTP 404 and no payload; when it finds one the answer
\* has no error and carries the record, its header identifier the record id
\* and its metadata in the requested format.  (A lookup that fails is the
\* repository-failure case.)
C9_GetRecordResolves ==
    GetRecordAnswered =>
        LET found == GetRecordInfo(table, args[ArgIdentifier], FALSE).data
        IN  /\ (\A i \in Named : table[i].deleted) => found = <<>>
            /\ found = <<>> => IdDoesNotExistAnswer
            /\ found # <<>> =>
                  /\ response.kind = "xml" /\ response.status = 200
                  /\ Body.Errors = <<>>
                  /\ Populated(Body) = {"GetRecord"}
                  /\ \E i \in Named :
                        /\ ~table[i].deleted
                        /\ Body.GetRecord[1].Header[1].Identifier = ToString(i)
                  /\ Body.GetRecord[1].Metadata[1].XMLName =
                        IF args[ArgMetadataPrefix] = "oai_dc"
                        THEN "oai_dc:dc" ELSE "cmd:CMD"

\* GetRecord in cmdi of a corpus that is public through its parallel corpus
C9_Witness ==
    /\ GetRecordAnswered
    /\ args[ArgMetadataPrefix] = "cmdi"
    /\ \E i \in Named : table[i].parallel /\ ~table[i].public
    /\ Populated(Body) = {"GetRecord"}
    /\ Body.GetRecord[1].Header[1].Identifier = args[ArgIdentifier]

\* a validated ListMetadataFormats request
ListMetadataFormatsRequest ==
    Validated /\ args[ArgVerb] = "ListMetadataFormats"

BothFormatsAnswer ==
    /\ response.kind = "xml" /\ response.status = 200
    /\ Body.Errors = <<>>
    /\ Populated(Body) = {"ListMetadataFormats"}
    /\ Len(Body.ListMetadataFormats[1]) = 2
    /\ {Body.ListMetadataFormats[1][n].MetadataPrefix : n \in 1..2} =
          {"oai_dc", "cmdi"}

ListAnswered ==
    /\ Validated
    /\ args[ArgVerb] \in {"ListIdentifiers", "ListRecords"}
    /\ args[ArgMetadataPrefix] \in {"oai_dc", "cmdi"}
    /\ LookupAnswered("ListRecordInfo")

\* C11: when the repository returns zero records for a validated
\* ListIdentifiers or ListRecords request with a supported metadataPrefix,
\* the answer is an envelope with exactly the error noRecordsMatch, HTTP 200
\* and no result list; it is never HTTP 500.
C11_NoRecordsMatch ==
    (ListAnswered
        /\ \/ dbCalls[1].rows = <<>>
           \/ ListMatches(table, getReqResp(args, "").req.From,
                          getReqResp(args, "").req.Until) = {}) =>
        /\ OnlyError("noRecordsMatch")
        /\ response.status = 200
        /\ Populated(Body) = {}

\* ListRecords over a repository with visible records, none of them in the
\* date range of the request
C11_Witness ==
    /\ ListAnswered /\ args[ArgVerb] = "ListRecords"
    /\ ListMatches(table, <<>>, <<>>) # {}
    /\ Has(args, ArgFrom)
    /\ dbCalls[1].rows = <<>>
    /\ OnlyError("noRecordsMatch") /\ response.status = 200

\* a repository operation of the request returned an error
RepositoryFailed == \E i \in 1..Len(dbCalls) : dbCalls[i].err

\* C12: when the repository operation of a request fails (GetFirstDate,
\* IdentifierExists, GetRecordInfo or ListRecordInfo), the request ends with a
\* bare HTTP 500: no envelope, so no error element and no payload; one hook
\* operation was invoked and it called the repository exactly once.
C12_RepositoryFailure ==
    (Parsed /\ RepositoryFailed) =>
        /\ response.kind = "abort"
        /\ response.status = 500
        /\ response.body = <<>>
        /\ Len(hookCalls) = 1
        /\ Len(dbCalls) = 1
        /\ dbCalls[1].op \in {"GetFirstDate", "IdentifierExists",
                              "GetRecordInfo", "ListRecordInfo"}

\* a ListIdentifiers request over visible records whose list query fails
C12_Witness ==
    /\ Parsed /\ RepositoryFailed
    /\ dbCalls[1].op = "ListRecordInfo"
    /\ ListMatches(table, <<>>, <<>>) # {}
    /\ args[ArgVerb] = "ListIdentifiers"
    /\ response.status = 500

\* the HTTP status the protocol fixes for an error code (0: none)
FixedStatus(code) ==
    CASE code \in {"badArgument", "badVerb", "cannotDisseminateFormat"} -> 400
      [] code = "idDoesNotExist" -> 404
      [] code = "noRecordsMatch" -> 200
      [] code = "noSetHierarchy" -> 501
      [] OTHER -> 0

\* C13: every envelope with a protocol error has the HTTP status fixed for
\* the code of each of its errors: badArgument, badVerb and
\* cannotDisseminateFormat 400, idDoesNotExist 404, noRecordsMatch 200,
\* noSetHierarchy 501; badResumptionToken and noMetadataFormats never occur.
C13_FixedStatusPerCode ==
    response.kind = "xml" =>
        \A i \in 1..Len(Body.Errors) :
            /\ Body.Errors[i].Code \notin {"badResumptionToken", "noMetadataFormats"}
            /\ response.status = FixedStatus(Body.Errors[i].Code)

\* a ListSets request, refused with noSetHierarchy and HTTP 501
C13_Witness ==
    /\ Parsed /\ getTypedArg(args, ArgVerb) = "ListSets"
    /\ OnlyError("noSetHierarchy")
    /\ response.status = 501

\* the ids of the rows the list query of the request returned
Returned == {dbCalls[1].rows[n] : n \in 1..Len(dbCalls[1].rows)}

\* C14: for a ListIdentifiers or ListRecords request whose until is the bare
\* date of day d, every record returned is not deleted and was last modified
\* strictly before 00:00:00 UTC of day d + 1 (and not before from, when
\* given): a record stamped exactly at the start of day d + 1 is not returned.
C14_UntilDateExclusive ==
    \A d \in Days :
        (ListAnswered /\ getTypedArg(args, ArgUntil) = DateStr(d)) =>
            \A i \in Returned :
                /\ ~table[i].deleted
                /\ Greatest(table[i]) < 24 * (d + 1)
                /\ getReqResp(args, "").req.From # <<>> =>
                      Greatest(table[i]) >= getReqResp(args, "").req.From[1].inst

\* s is a calendar date or a full timestamp
WellFormed(s) ==
    \/ \E d \in Days : s = DateStr(d)
    \/ \E d \in Days, z \in {"Z", "P1"} : s = TsStr(d, z)

\* the instant a well-formed lower bound denotes, in hours: midnight UTC of
\* a date, the instant of a timestamp (offset +01:00 is one hour before Z)
InstantOf(s) ==
    CHOOSE h \in -1..(24 * (MaxDay + 1)) :
        \/ \E d \in Days : s = DateStr(d) /\ h = 24 * d
        \/ \E d \in Days : s = TsStr(d, "Z") /\ h = 24 * d
        \/ \E d \in Days : s = TsStr(d, "P1") /\ h = 24 * d - 1

\* a ListIdentifiers or ListRecords request that passed the verb and
\* argument checks
ListChecked ==
    /\ Parsed /\ VerbValid /\ Omitted = <<>> /\ Outside = {}
    /\ args[ArgVerb] \in {"ListIdentifiers", "ListRecords"}

\* the request ended as a hard failure of the validation stage
HardFailure ==
    /\ response = [kind |-> "abort", status |-> 500, body |-> <<>>]
    /\ hookCalls = <<>>
    /\ dbCalls = <<>>

\* the bound the envelope records for a date argument is the given instant
\* in UTC, or absent when the argument is empty or absent
StoredBound(bound, s, h) ==
    bound = IF s = "" THEN <<>> ELSE <<[inst |-> h, zone |-> "UTC"]>>

\* C15 (as amended): a checked list request whose from or until value is not
\* empty and neither a calendar date nor a full timestamp ends with a bare
\* HTTP 500, no hook operation invoked; a request whose values are well-formed
\* (or empty) does not fail at the validation stage, and the bounds it stores
\* are in UTC: the instant given, and for a bare until date the start of the
\* next day.
C15_MalformedDate ==
    LET f == getTypedArg(args, ArgFrom)
        u == getTypedArg(args, ArgUntil)
    IN  ListChecked =>
          IF (f # "" /\ ~WellFormed(f)) \/ (u # "" /\ ~WellFormed(u))
          THEN HardFailure
          ELSE /\ ~HardFailure
               /\ response.kind = "xml" =>
                     /\ StoredBound(Body.Request.From, f, InstantOf(f))
                     /\ StoredBound(Body.Request.Until, u,
                           IF ContainsT(u) THEN InstantOf(u)
                           ELSE InstantOf(u) + 24)

\* ListRecords over visible records with a malformed until
C15_Witness ==
    /\ ListChecked /\ args[ArgVerb] = "ListRecords"
    /\ getTypedArg(args, ArgUntil) = "Tomorrow"
    /\ ListMatches(table, <<>>, <<>>) # {}
    /\ HardFailure

\* C15 as stated: every value that is not well-formed, the empty one included
C15_AnyMalformedValue ==
    (ListChecked
        /\ \/ Has(args, ArgFrom) /\ ~WellFormed(args[ArgFrom])
           \/ Has(args, ArgUntil) /\ ~WellFormed(args[ArgUntil])) =>
        HardFailure

\* the OAI endpoint's outcome for the GetRecord request with the identifier
\* and format of the self-link request, on the same repository with the same
\* repository failure
AsGetRecord ==
    HandleOAI(getReqResp([k \in {"verb", "identifier", "metadataPrefix"} |->
                             CASE k = "verb" -> "GetRecord"
                               [] k = "identifier" -> args["recordId"]
                               [] OTHER -> DefaultQuery(args, "format", "oai_dc")],
                         ""),
              table, RepositoryFailed, <<>>)

\* C16: a request to /record/{id}?format={prefix} has the HTTP status of the
\* GetRecord request with identifier id and metadataPrefix prefix (oai_dc
\* when no format is given), makes the same repository accesses (none when
\* the format is unsupported), and on success its body is the metadata
\* document GetRecord embeds.
C16_SelfLinkIsGetRecord ==
    pc = "done" =>
        /\ response.status = AsGetRecord.response.status
        /\ dbCalls = AsGetRecord.calls
        /\ DefaultQuery(args, "format", "oai_dc") \notin {"oai_dc", "cmdi"} =>
              dbCalls = <<>>
        /\ response.status < 400 =>
              response.body = AsGetRecord.response.body[1].GetRecord[1].Metadata

\* the white space within a line of the modelled blocks: the space (a
\* carriage return that is not part of \r\n is left to the word it is in)
IsSpace(c) == c = " "

RECURSIVE WordsFrom(_, _, _)
\* the white-space separated words of s from position i on, word being the
\* word collected so far
WordsFrom(s, i, word) ==
    IF i > Len(s) THEN (IF word = <<>> THEN <<>> ELSE <<word>>)
    ELSE IF IsSpace(s[i])
    THEN (IF word = <<>> THEN <<>> ELSE <<word>>) \o WordsFrom(s, i + 1, <<>>)
    ELSE WordsFrom(s, i + 1, Append(word, s[i]))

\* the tokens of a line
Words(line) == WordsFrom(line, 1, <<>>)

\* the lines of the author block given to getAuthorList, \r\n taken as \n
InputLines == Split(ReplaceAllCRLF(input), "\n")

\* the author the parser is to give for a line with tokens
ExpectedAuthor(words) ==
    IF Len(words) = 1 THEN [FirstName |-> <<>>, LastName |-> words[1]]
    ELSE [FirstName |-> words[1], LastName |-> words[2]]

\* C17: for an author block in which every line has a token, getAuthorList
\* gives one author for each line, in line order: the only token as last name
\* and no first name, or the first token as first name and the second as last
\* name, further tokens discarded; tokens are the white-space separated words
\* of the line.
C17_AuthorPerLine ==
    (pc = "done" /\ \A n \in 1..Len(InputLines) : Words(InputLines[n]) # <<>>) =>
        /\ Len(output) = Len(InputLines)
        /\ \A n \in 1..Len(InputLines) :
              output[n] = ExpectedAuthor(Words(InputLines[n]))

\* C18: a line without a token gives no author: getAuthorList gives as many
\* authors as the block has lines with a token, none with an empty last name.
C18_EmptyLineSkipped ==
    pc = "done" =>
        /\ Len(output) =
              Cardinality({n \in 1..Len(InputLines) : Words(InputLines[n]) # <<>>})
        /\ \A n \in 1..Len(output) : output[n].LastName # <<>>

\* the document a converter returned
Document == output.Metadata[1]

\* the Dublin Core converter has returned
ConvertedDC == pc = "done" /\ Document.XMLName = "oai_dc:dc"

\* the CMDI converter has returned
ConvertedCMDI == pc = "done" /\ Document.XMLName = "cmd:CMD"

\* the description elements of the Dublin Core document tagged lang
DescriptionsIn(lang) ==
    {n \in 1..Len(Document.Description) : Document.Description[n].Lang = lang}

\* C19: the Dublin Core document has a description element for cs, and for
\* en, exactly when the record's description in that language is not empty,
\* one element with that text; no description element is blank.
C19_DescriptionIffNonEmpty ==
    ConvertedDC =>
        /\ DescriptionsIn("cs") # {} <=> input.DescCS.str # <<>>
        /\ DescriptionsIn("en") # {} <=> input.DescEN.str # <<>>
        /\ \A n \in 1..Len(Document.Description) :
              /\ Document.Description[n].Value # <<>>
              /\ Document.Description[n].Lang \in {"cs", "en"}
        /\ Len(Document.Description) =
              Cardinality({l \in {"cs", "en"} : DescriptionsIn(l) # {}})

\* the resource proxies of the CMDI document of the given kind
ProxiesOf(kind) ==
    {n \in 1..Len(Document.ResourceProxyList) :
        Document.ResourceProxyList[n].ResourceType.Value = kind}

\* the fields every Dublin Core document has
CommonFieldsDC ==
    /\ Document.Title = <<[Value |-> input.TitleEN, Lang |-> "en"],
                          [Value |-> input.TitleCS, Lang |-> "cs"]>>
    /\ Document.Identifier = <<[Value |-> input.Name, Lang |-> ""]>>
    /\ Document.Type = <<[Value |-> input.Type, Lang |-> ""]>>
    /\ Document.Rights = <<[Value |-> input.License, Lang |-> ""]>>
    /\ Len(Document.Date) = 1 /\ Document.Date[1].Value.inst = input.Date.inst
    /\ output.Header[1].Identifier = ToString(input.ID)

\* the fields every CMDI document has
CommonFieldsCMDI ==
    /\ Document.Components.BibliographicInfo.Titles =
          <<[Value |-> input.TitleEN, Lang |-> "en"],
            [Value |-> input.TitleCS, Lang |-> "cs"]>>
    /\ Document.Components.BibliographicInfo.Identifiers = <<input.Name>>
    /\ Document.Components.BibliographicInfo.ContactPerson = input.ContactPerson
    /\ Document.Components.DataInfo.Type = input.Type
    /\ Len(Document.Components.DataInfo.Description) = 2
    /\ Document.Components.LicenseInfo = <<[URI |-> input.License]>>
    /\ output.Header[1].Identifier = ToString(input.ID)

\* C20: for a record whose type is not corpus, the Dublin Core document has
\* no language element and the CMDI document has no size, no language, no
\* keyword list and no search page proxy, whatever locale, size and keywords
\* the record has; the common fields are there as for a corpus.
C20_TypeGating ==
    (pc = "done" /\ input.Type # "corpus") =>
        /\ ConvertedDC => Document.Language = <<>> /\ CommonFieldsDC
        /\ ConvertedCMDI =>
              /\ Document.Components.DataInfo.SizeInfo = <<>>
              /\ Document.Components.DataInfo.Languages = <<>>
              /\ Document.Components.DataInfo.Keywords = <<>>
              /\ ProxiesOf("SearchPage") = {}
              /\ CommonFieldsCMDI

\* the CMDI document of a service that has a locale, a size and keywords
C20_Witness ==
    /\ ConvertedCMDI /\ input.Type = "service"
    /\ input.Locale # <<>> /\ input.Size.valid /\ input.Keywords.str # <<>>
    /\ Document.Components.DataInfo.SizeInfo = <<>>
    /\ Document.Components.DataInfo.Keywords = <<>>
    /\ CommonFieldsCMDI

\* C21: the CMDI document of a corpus has the size component exactly when
\* the record has a size; the component then holds the word count with the
\* unit "words".
C21_SizeIffPresent ==
    (ConvertedCMDI /\ input.Type = "corpus") =>
        /\ Document.Components.DataInfo.SizeInfo # <<>> <=> input.Size.valid
        /\ input.Size.valid =>
              Document.Components.DataInfo.SizeInfo =
                 <<<<[Size |-> ToString(input.Size.int), Unit |-> "words"]>>>>

\* the link the Resource proxy of the CMDI document points at
EmittedLink ==
    Document.ResourceProxyList[Len(Document.ResourceProxyList)].ResourceRef

\* C22: a record with a link has one Resource proxy, the last of the list
\* and so after the search page proxy; a link with wiki.korpus.cz/cnk: is
\* emitted with wiki.korpus.cz/en:cnk: at that place, its other parts as
\* stored, and a link without the wiki host is emitted as stored.  A record
\* without a link has no Resource proxy.
C22_LinkRewrite ==
    ConvertedCMDI =>
        /\ input.Link.str = <<>> => ProxiesOf("Resource") = {}
        /\ input.Link.str # <<>> =>
              /\ ProxiesOf("Resource") = {Len(Document.ResourceProxyList)}
              /\ ProxiesOf("SearchPage") \subseteq {1}
              /\ Len(EmittedLink) = Len(input.Link.str)
              /\ \A i \in 2..Len(EmittedLink) :
                    (input.Link.str[i - 1] = "wiki.korpus.cz"
                        /\ input.Link.str[i] = "/cnk:")
                    => EmittedLink[i] = "/en:cnk:"
              /\ \A i \in 1..Len(EmittedLink) :
                    input.Link.str[i] # "/cnk:" => EmittedLink[i] = input.Link.str[i]
              /\ (\A i \in 1..Len(input.Link.str) :
                        input.Link.str[i] # "wiki.korpus.cz")
                 => EmittedLink = input.Link.str

\* the CMDI document of a corpus with a link to a Czech page of the wiki
C22_Witness ==
    /\ ConvertedCMDI /\ input.Type = "corpus"
    /\ input.Link.str = <<"https://", "wiki.korpus.cz", "/cnk:", "Foo">>
    /\ Len(Document.ResourceProxyList) = 2
    /\ Document.ResourceProxyList[1].ResourceType.Value = "SearchPage"
    /\ Document.ResourceProxyList[2].ResourceType.Value = "Resource"
    /\ EmittedLink = <<"https://", "wiki.korpus.cz", "/en:cnk:", "Foo">>

\* the part of a text before the first c, the whole text when it has none
Upto(s, c) ==
    IF \E i \in 1..Len(s) : s[i] = c
    THEN SubSeq(s, 1, (CHOOSE i \in 1..Len(s) :
                          s[i] = c /\ \A j \in 1..(i - 1) : s[j] # c) - 1)
    ELSE s

\* a well-formed language tag: a language, or a language and a region
WellFormedTag(s) ==
    \/ Len(s) = 1 /\ s[1] \in {"en", "cs"}
    \/ /\ Len(s) = 3 /\ s[1] \in {"en", "cs"}
       /\ s[2] \in {"_", "-"} /\ s[3] \in {"US", "CZ"}

\* the base and region of a well-formed tag
TagOf(s) == [base |-> s[1], region |-> IF Len(s) = 3 THEN s[3] ELSE ""]

\* the number of components the locale string splits into on "_"
Components(s) == 1 + Cardinality({i \in 1..Len(s) : s[i] = "_"})

\* the parser gave the tag of s without error
ParsedAs(s) == ~output.err /\ output.tag = TagOf(s)

C24_EncodingDiscarded ==
    (pc = "done" /\ \E i \in 1..Len(input) : input[i] = ".") =>
        /\ output.err = parseLocale(Upto(input, ".")).err
        /\ ~output.err => output.tag = parseLocale(Upto(input, ".")).tag

\* a list request was answered with its result list
ListSucceeded ==
    /\ ListAnswered /\ response.status = 200 /\ Body.Errors = <<>>
    /\ Populated(Body) = {args[ArgVerb]}

\* the result list of the answered list request
ResultList == Body[args[ArgVerb]][1]

\* the headers of the result list
ResultHeaders ==
    [n \in 1..Len(ResultList) |->
        IF args[ArgVerb] = "ListRecords" THEN ResultList[n].Header[1]
        ELSE ResultList[n]]

\* the answer of the hook to the request with the other verb or format
HookListData(verb, prefix) ==
    LET req == [getReqResp(args, "").req EXCEPT !.MetadataPrefix = prefix]
    IN  IF verb = "ListRecords"
        THEN HookListRecords(req, table, FALSE, dbCalls[1].rows).ans.Data
        ELSE HookListIdentifiers(req, table, FALSE, dbCalls[1].rows).ans.Data

\* C25: the result list of a successful ListRecords or ListIdentifiers
\* request has the length and the order of the list the repository
\* returned: entry n has the id of record n as its header identifier and
\* the record's timestamp in UTC as its datestamp.  ListIdentifiers gives
\* the headers of the records ListRecords gives, with either format.
C25_ListOrderAndHeaders ==
    ListSucceeded =>
        /\ Len(ResultList) = Len(dbCalls[1].rows)
        /\ \A n \in 1..Len(ResultList) :
              /\ ResultHeaders[n].Identifier = ToString(dbCalls[1].rows[n])
              /\ ResultHeaders[n].Datestamp =
                    [inst |-> Greatest(table[dbCalls[1].rows[n]]), zone |-> "UTC"]
        /\ \A prefix \in {"oai_dc", "cmdi"} :
              /\ HookListData("ListIdentifiers", prefix) = ResultHeaders
              /\ Len(HookListData("ListRecords", prefix)) = Len(ResultList)
              /\ \A n \in 1..Len(ResultList) :
                    HookListData("ListRecords", prefix)[n].Header[1] = ResultHeaders[n]

\* ListRecords answered with two records, the one with the larger id first
C25_Witness ==
    /\ ListSucceeded /\ args[ArgVerb] = "ListRecords"
    /\ Len(ResultList) = 2
    /\ ResultHeaders[1].Identifier = "2" /\ ResultHeaders[2].Identifier = "1"
    /\ dbCalls[1].rows = <<2, 1>>

\* C26: every CMDI document has at least one resource proxy, whatever the
\* type of the record and whether or not it has a link.
C26_AtLeastOneProxy ==
    ConvertedCMDI => Len(Document.ResourceProxyList) >= 1

\* C30: the CMDI document has the dates component exactly when the
\* record's date of issue is not empty, and the component holds that date.
C30_DatesIffIssued ==
    ConvertedCMDI =>
        /\ Document.Components.BibliographicInfo.Dates # <<>>
              <=> input.DateIssued # <<>>
        /\ input.DateIssued # <<>> =>
              Document.Components.BibliographicInfo.Dates =
                 <<[DateIssued |-> input.DateIssued]>>

\* the first check the request fails, as the code and the text of the
\* error it is answered with, in the order verb present, verb valid,
\* required arguments, allowed arguments, supported format, set support;
\* <<>> when it fails none of them
FirstFailing ==
    IF ~Has(args, "verb")
    THEN <<"badArgument", "Missing required argument">>
    ELSE IF args["verb"] \notin {"Identify", "GetRecord", "ListIdentifiers",
                                 "ListMetadataFormats", "ListRecords", "ListSets"}
    THEN <<"badVerb", "Invalid verb">>
    ELSE IF \E n \in 1..Len(RequiredOf(args["verb"])) :
               ~Has(args, RequiredOf(args["verb"])[n])
    THEN <<"badArgument", "Missing required argument">>
    ELSE IF DOMAIN args \ (AllowedOf(args["verb"]) \cup {"verb"}) # {}
    THEN <<"badArgument", "Invalid argument">>
    ELSE IF /\ args["verb"] \in {"GetRecord", "ListIdentifiers", "ListRecords"}
            /\ args["metadataPrefix"] \notin {"oai_dc", "cmdi"}
    THEN <<"cannotDisseminateFormat", "Unknown metadata format">>
    ELSE IF \/ args["verb"] = "ListSets"
            \/ /\ args["verb"] \in {"ListIdentifiers", "ListRecords"}
               /\ Has(args, "set") /\ args["set"] # ""
    THEN <<"noSetHierarchy", "Sets functionality not implemented">>
    ELSE <<>>

\* C28: every envelope written has at most one error.  A request that
\* fails one or more of the checks before the repository lookup is answered
\* with the error of the first check it fails and the repository is not
\* queried; a request that fails none has at most the error of its lookup.
C28_FirstFailingCheckOnly ==
    response.kind = "xml" =>
        /\ Len(Body.Errors) <= 1
        /\ FirstFailing # <<>> =>
              /\ Len(Body.Errors) = 1
              /\ Body.Errors[1].Code = FirstFailing[1]
              /\ Body.Errors[1].Message[1] = FirstFailing[2]
              /\ dbCalls = <<>>
        /\ FirstFailing = <<>> =>
              ErrorCodes(Body) \subseteq {"idDoesNotExist", "noRecordsMatch"}

\* GetRecord with a format that is not supported and an identifier no
\* record has: only the format is reported
C28_Witness ==
    /\ response.kind = "xml"
    /\ Has(args, "verb") /\ args["verb"] = "GetRecord"
    /\ Has(args, "identifier") /\ Has(args, "metadataPrefix")
    /\ args["metadataPrefix"] \notin {"oai_dc", "cmdi"}
    /\ \A i \in DOMAIN table : ToString(i) # args["identifier"]
    /\ Body.Errors = <<[Code |-> "cannotDisseminateFormat",
                        Message |-> <<"Unknown metadata format">>]>>
    /\ dbCalls = <<>>

\* C29: the two lookups agree on the identifiers that exist.  A
\* ListMetadataFormats request with an identifier is answered with the
\* formats exactly when GetRecordInfo finds a record for that identifier,
\* and a GetRecord request with a supported format is answered with
\* idDoesNotExist exactly when IdentifierExists is false for its identifier.
C29_LookupsAgree ==
    /\ (Validated /\ args[ArgVerb] = "ListMetadataFormats"
           /\ LookupAnswered("IdentifierExists")) =>
          (Body.Errors = <<>> /\ Populated(Body) = {"ListMetadataFormats"})
             <=> GetRecordInfo(table, args[ArgIdentifier], FALSE).data # <<>>
    /\ (Validated /\ args[ArgVerb] = "GetRecord"
           /\ LookupAnswered("GetRecordInfo")) =>
          OnlyError("idDoesNotExist")
             <=> ~IdentifierExists(table, args[ArgIdentifier], FALSE).exists

\* the metadata row of the corpus in the database k
MetadataRow(k) ==
    k.common[CHOOSE i \in DOMAIN k.common : k.common[i].type = "corpus"]

\* the last statement of the session was an UPDATE that changed a
\* description of the corpus, in kontext_corpus or in its metadata row, the
\* corpus having a metadata row
DescriptionUpdated ==
    /\ pc = "done" /\ input.before.metadata_corpus # <<>>
    /\ \/ /\ input.table = "kontext_corpus"
          /\ <<input.cs, input.en>> #
                <<input.before.corpus.description_cs,
                  input.before.corpus.description_en>>
       \/ /\ input.table = "vlo_metadata_common"
          /\ input.before.common[input.id].type = "corpus"
          /\ <<input.cs, input.en>> #
                <<input.before.common[input.id].desc_cs,
                  input.before.common[input.id].desc_en>>

=============================================================================
